---- MODULE Spec2Model ----
(***************************************************************************)
(* Price validator and multi-source reconciliation engine of the coffee    *)
(* price scraper (src/enhanced_multi_source_scraper.py):                   *)
(*   EnhancedMultiSourceScraper.validate_price     lines 166-180           *)
(*   EnhancedMultiSourceScraper.compare_prices     lines 774-841           *)
(*   EnhancedMultiSourceScraper.scrape_all_prices  lines 843-952           *)
(*   EnhancedMultiSourceScraper.get_page_content   lines 754-772           *)
(* and the extractors of the configured sources    lines 182-752;          *)
(* further the page fetcher, the market status and the price history of    *)
(* src/investing_market_scraper.py, the market status and the pre-market   *)
(* time of src/market_config.py, the pre-market time and the scheduler     *)
(* threads of src/market_scheduler.py, and the daily report of             *)
(* src/telegram_bot.py.                                                    *)
(*                                                                         *)
(* Numbers.  Prices are integers (floats holding whole numbers, which the  *)
(* program represents exactly).  Every other float of the program, that    *)
(* is confidences, averages, medians, variances and reliability scores,    *)
(* is an exact rational [num, den] in lowest terms with den > 0.  The band *)
(* limits min*0.8, max*1.2, min*0.5 and max*1.5 of the three configured    *)
(* ranges are whole numbers that the float products yield exactly.         *)
(***************************************************************************)
EXTENDS Integers, Sequences, FiniteSets, TLC

VARIABLES
    all_price_points,   \* the list a caller hands to compare_prices
    comparisons,        \* the mapping compare_prices returned (market -> PriceComparison)
    pc,                 \* where the caller stands
    price,              \* argument of validate_price
    market_type,        \* argument of validate_price
    score,              \* value validate_price returned
    price_cache,        \* self.price_cache
    source_index,       \* how many of self.sources scrape_all_prices has taken
    sources_used,       \* names of the sources that gave price points
    failed_sources,     \* names of the sources recorded as failed
    compare_calls,      \* how often compare_prices has been invoked
    max_retries,        \* get_page_content: the argument max_retries
    attempt,            \* get_page_content: the loop variable
    requests_sent,      \* get_page_content: calls of session.get so far
    delays,             \* get_page_content: calls of time.sleep so far
    response,           \* get_page_content: the text of the last response
    result,             \* get_page_content: what it returned
    market_id,          \* the market a status is asked for
    local_now,          \* datetime.now(market_tz) as read by the status function
    status,             \* what the status function returned
    market_open,        \* calculate_pre_market_time: the argument market_open
    minutes_before,     \* calculate_pre_market_time: the argument minutes_before
    pre_market_times,   \* what each calculate_pre_market_time returned
    report,             \* scrape_all_prices: the dictionary it returned
    is_running,         \* MarketTimingScheduler.is_running
    scheduler_thread,   \* MarketTimingScheduler.scheduler_thread
    threads,            \* where each started _run_scheduler thread stands
    jobs,               \* whether the schedule holds jobs
    stopped,            \* the threads started before a stop_scheduler that returned
    consecutive_failures,   \* CoffeePriceNotifier.consecutive_failures
    last_successful_run,    \* CoffeePriceNotifier.last_successful_run
    error_notifications,    \* the calls of send_error_notification
    runs,               \* what each run_daily_report returned
    price_history,      \* InvestingMarketScraper.price_history
    scraped,            \* every observation scrape_coffee_prices has parsed
    scrapes             \* calls of scrape_coffee_prices so far

\* What scrape_all_prices keeps besides the list of points, and the cache.
scraper_vars == <<price_cache, source_index, sources_used, failed_sources>>

\* What one call of get_page_content keeps.
fetch_vars == <<max_retries, attempt, requests_sent, delays, response, result>>

\* The variables of the parts of the program that the price engine and
\* scrape_all_prices do not touch.
\* What one call of a market-status function reads and returns.
status_vars == <<market_id, local_now, status>>

\* The arguments and the results of the pre-market time calculations.
timing_vars == <<market_open, minutes_before, pre_market_times>>

\* The state of the scheduler and of its loop threads.
scheduler_vars == <<is_running, scheduler_thread, threads, jobs, stopped>>

\* The state of the notifier and what it has sent and returned.
notifier_vars == <<consecutive_failures, last_successful_run,
                   error_notifications, runs>>

\* The price history of the market scraper.
history_vars == <<price_history, scraped, scrapes>>

service_vars == <<report, scheduler_vars, notifier_vars, history_vars>>

other_vars == <<fetch_vars, status_vars, timing_vars, service_vars>>

\* The variables of the price engine and of scrape_all_prices.
engine_vars == <<all_price_points, comparisons, price, market_type, score,
                 scraper_vars, compare_calls>>

vars == <<engine_vars, pc, other_vars>>

\* Longest list handed to compare_prices.
MaxPoints == 3

\* Most invocations of compare_prices in one run.
MaxCalls == 2

----------------------------------------------------------------------------
(* Exact rationals standing for the program's floats.                      *)

RECURSIVE GCD(_, _)
GCD(a, b) == IF b = 0 THEN a ELSE GCD(b, a % b)

Abs(x) == IF x < 0 THEN -x ELSE x

\* n/d in lowest terms, d # 0.
R(n, d) ==
    LET g == GCD(Abs(n), Abs(d))
        s == IF d < 0 THEN -1 ELSE 1
    IN  [num |-> s * (n \div g), den |-> s * (d \div g)]

RInt(n) == [num |-> n, den |-> 1]
RAdd(a, b) == R(a.num * b.den + b.num * a.den, a.den * b.den)
RSub(a, b) == R(a.num * b.den - b.num * a.den, a.den * b.den)
RMul(a, b) == R(a.num * b.num, a.den * b.den)
RDiv(a, b) == R(a.num * b.den, a.den * b.num)
RLt(a, b) == a.num * b.den < b.num * a.den
RLeq(a, b) == a.num * b.den <= b.num * a.den

RECURSIVE RSum(_)
RSum(s) == IF s = <<>> THEN RInt(0) ELSE RAdd(Head(s), RSum(Tail(s)))

----------------------------------------------------------------------------
(* market_info: the valid_range of every configured market.                *)

market_info ==
    [robusta_london          |-> [min_price |-> 2000,  max_price |-> 8000],
     arabica_newyork         |-> [min_price |-> 100,   max_price |-> 400],
     robusta_vietnam         |-> [min_price |-> 45000, max_price |-> 120000],
     robusta_vietnam_south   |-> [min_price |-> 45000, max_price |-> 120000],
     robusta_vietnam_central |-> [min_price |-> 45000, max_price |-> 120000],
     robusta_vietnam_local   |-> [min_price |-> 45000, max_price |-> 120000]]

\* validate_price with the lower limit of the close band exclusive.
validate_price_exclusive(p, m) ==
    IF m \notin DOMAIN market_info THEN R(5, 10)
    ELSE LET min_price == market_info[m].min_price
             max_price == market_info[m].max_price
         IN  IF min_price <= p /\ p <= max_price THEN R(10, 10)
             ELSE IF min_price * 8 < p * 10 /\ p * 10 <= max_price * 12 THEN R(7, 10)
             ELSE IF min_price * 5 <= p * 10 /\ p * 10 <= max_price * 15 THEN R(4, 10)
             ELSE R(1, 10)

\* validate_price scoring a market without a configured range lowest.
validate_price_unknown_lowest(p, m) ==
    IF m \notin DOMAIN market_info THEN R(1, 10)
    ELSE LET min_price == market_info[m].min_price
             max_price == market_info[m].max_price
         IN  IF min_price <= p /\ p <= max_price THEN R(10, 10)
             ELSE IF min_price * 8 <= p * 10 /\ p * 10 <= max_price * 12 THEN R(7, 10)
             ELSE IF min_price * 5 <= p * 10 /\ p * 10 <= max_price * 15 THEN R(4, 10)
             ELSE R(1, 10)

\* validate_price scoring a price outside every band 0.
validate_price_outside_zero(p, m) ==
    IF m \notin DOMAIN market_info THEN R(5, 10)
    ELSE LET min_price == market_info[m].min_price
             max_price == market_info[m].max_price
         IN  IF min_price <= p /\ p <= max_price THEN R(10, 10)
             ELSE IF min_price * 8 <= p * 10 /\ p * 10 <= max_price * 12 THEN R(7, 10)
             ELSE IF min_price * 5 <= p * 10 /\ p * 10 <= max_price * 15 THEN R(4, 10)
             ELSE R(0, 10)

(* validate_price: the tiered plausibility score of a price.               *)
(* min_price * 0.8 <= price is min_price * 8 <= price * 10, and so on.     *)
validate_price(p, m) ==
    IF m \notin DOMAIN market_info THEN R(5, 10)
    ELSE LET min_price == market_info[m].min_price
             max_price == market_info[m].max_price
         IN  IF min_price <= p /\ p <= max_price THEN R(10, 10)
             ELSE IF min_price * 8 <= p * 10 /\ p * 10 <= max_price * 12 THEN R(7, 10)
             ELSE IF min_price * 5 <= p * 10 /\ p * 10 <= max_price * 15 THEN R(4, 10)
             ELSE R(1, 10)

----------------------------------------------------------------------------
(* The statistics module's functions that compare_prices calls.            *)

RECURSIVE InsertAsc(_, _)
InsertAsc(x, s) ==
    IF s = <<>> THEN <<x>>
    ELSE IF x <= Head(s) THEN <<x>> \o s
    ELSE <<Head(s)>> \o InsertAsc(x, Tail(s))

RECURSIVE sorted(_)
sorted(s) == IF s = <<>> THEN <<>> ELSE InsertAsc(Head(s), sorted(Tail(s)))

RECURSIVE SeqSum(_)
SeqSum(s) == IF s = <<>> THEN 0 ELSE Head(s) + SeqSum(Tail(s))

RECURSIVE SeqMin(_)
SeqMin(s) ==
    IF Len(s) = 1 THEN s[1]
    ELSE LET r == SeqMin(Tail(s)) IN IF Head(s) <= r THEN Head(s) ELSE r

\* The first price taken for the highest.
SeqMaxOfHead(s) == Head(s)

RECURSIVE SeqMax(_)
SeqMax(s) ==
    IF Len(s) = 1 THEN s[1]
    ELSE LET r == SeqMax(Tail(s)) IN IF Head(s) >= r THEN Head(s) ELSE r

\* statistics.mean(prices): the exact sum over the count.
mean(prices) == R(SeqSum(prices), Len(prices))

\* statistics.mean(confidence_scores), over rationals.
mean_confidence(confidence_scores) ==
    RDiv(RSum(confidence_scores), RInt(Len(confidence_scores)))

\* The median taken from the data as given, not sorted.
median_unsorted(prices) ==
    LET n == Len(prices)
        i == n \div 2
    IN  IF n % 2 = 1 THEN RInt(prices[i + 1])
        ELSE R(prices[i] + prices[i + 1], 2)

\* statistics.median(prices): the middle of the sorted data, or the mean of
\* the two middle values.
median(prices) ==
    LET data == sorted(prices)
        n == Len(data)
        i == n \div 2
    IN  IF n % 2 = 1 THEN RInt(data[i + 1])
        ELSE R(data[i] + data[i + 1], 2)

\* The sample variance: the sum of the squared deviations over the count
\* less one.
variance_of_sample(prices) ==
    LET c == mean(prices)
        n == Len(prices)
        dev2 == [k \in 1..n |->
                    LET d == RSub(RInt(prices[k]), c) IN RMul(d, d)]
    IN  RDiv(RSum(dev2), RInt(n - 1))

\* statistics.pvariance(prices): the sum of the squared deviations from the
\* mean, over the count.
pvariance(prices) ==
    LET c == mean(prices)
        n == Len(prices)
        dev2 == [k \in 1..n |->
                    LET d == RSub(RInt(prices[k]), c) IN RMul(d, d)]
    IN  RDiv(RSum(dev2), RInt(n))

----------------------------------------------------------------------------
(* compare_prices.  A PricePoint is a record with the fields source,       *)
(* price, timestamp, confidence and market_type (unit, raw_data and        *)
(* location are never read by compare_prices).                             *)

\* A grouping that puts every point into every market.
GroupOfAllPoints(price_points, m) == price_points

\* markets[market_type]: the points of one market, in input order.
GroupByMarket(price_points, m) ==
    SelectSeq(price_points, LAMBDA p : p.market_type = m)

\* p stood before every point of s: it goes before the first point whose
\* confidence is not greater than its own.
RECURSIVE InsertByConfidence(_, _)
InsertByConfidence(p, s) ==
    IF s = <<>> THEN <<p>>
    ELSE IF RLt(p.confidence, Head(s).confidence)
         THEN <<Head(s)>> \o InsertByConfidence(p, Tail(s))
         ELSE <<p>> \o s

\* A sort that puts a point behind the points of equal confidence.
RECURSIVE InsertBehindEquals(_, _)
InsertBehindEquals(p, s) ==
    IF s = <<>> THEN <<p>>
    ELSE IF RLeq(p.confidence, Head(s).confidence)
         THEN <<Head(s)>> \o InsertBehindEquals(p, Tail(s))
         ELSE <<p>> \o s

RECURSIVE SortReversingEquals(_)
SortReversingEquals(points) ==
    IF points = <<>> THEN <<>>
    ELSE InsertBehindEquals(Head(points), SortReversingEquals(Tail(points)))

\* The sort without reverse=True: lowest confidence first.
RECURSIVE InsertAscending(_, _)
InsertAscending(p, s) ==
    IF s = <<>> THEN <<p>>
    ELSE IF RLt(Head(s).confidence, p.confidence)
         THEN <<Head(s)>> \o InsertAscending(p, Tail(s))
         ELSE <<p>> \o s

RECURSIVE SortAscending(_)
SortAscending(points) ==
    IF points = <<>> THEN <<>>
    ELSE InsertAscending(Head(points), SortAscending(Tail(points)))

\* points.sort(key=lambda p: p.confidence, reverse=True): a stable sort,
\* points of equal confidence keep their order.
RECURSIVE SortByConfidence(_)
SortByConfidence(points) ==
    IF points = <<>> THEN <<>>
    ELSE InsertByConfidence(Head(points), SortByConfidence(Tail(points)))

PricesOf(points) == [k \in 1..Len(points) |-> points[k].price]

ConfidencesOf(points) == [k \in 1..Len(points) |-> points[k].confidence]

\* The consistency with the average not squared.
price_consistency_unsquared(variance, average) ==
    IF RLt(RInt(0), average)
    THEN RSub(RInt(1), RDiv(variance, average))
    ELSE RInt(0)

\* The consistency taken as full when the average is not positive.
price_consistency_else_full(variance, average) ==
    IF RLt(RInt(0), average)
    THEN RSub(RInt(1), RDiv(variance, RMul(average, average)))
    ELSE RInt(1)

\* 1.0 - (variance / (average ** 2)) if average > 0 else 0.0
price_consistency(variance, average) ==
    IF RLt(RInt(0), average)
    THEN RSub(RInt(1), RDiv(variance, RMul(average, average)))
    ELSE RInt(0)

\* (statistics.mean(confidence_scores) + price_consistency) / 2.0
reliability(confidence_scores, consistency) ==
    RDiv(RAdd(mean_confidence(confidence_scores), consistency), RInt(2))

\* The spread taken from the highest price alone.
price_spread_of_max(price_range, average) ==
    IF RLt(RInt(0), average)
    THEN RDiv(RInt(price_range[2]), average)
    ELSE RInt(0)

\* (price_range[1] - price_range[0]) / average if average > 0 else 0
price_spread(price_range, average) ==
    IF RLt(RInt(0), average)
    THEN RDiv(RInt(price_range[2] - price_range[1]), average)
    ELSE RInt(0)

\* The recommendation with the thresholds inclusive.
recommendation_inclusive(spread, n) ==
    IF RLeq(spread, R(5, 100))
    THEN "Consistent across " \o ToString(n) \o " sources"
    ELSE IF RLeq(spread, R(15, 100))
    THEN "Reasonable variance across sources"
    ELSE "High variance - verify manually"

\* The recommendation text chosen from the spread.
recommendation(spread, n) ==
    IF RLt(spread, R(5, 100))
    THEN "Consistent across " \o ToString(n) \o " sources"
    ELSE IF RLt(spread, R(15, 100))
    THEN "Reasonable variance across sources"
    ELSE "High variance - verify manually"

\* The single-source branch taking a single source as fully reliable.
SingleSourceReliable(m, points) ==
    LET prices == PricesOf(points)
    IN  [market_type       |-> m,
         primary_price     |-> points[1],
         all_prices        |-> points,
         price_range       |-> <<prices[1], prices[1]>>,
         average_price     |-> RInt(prices[1]),
         median_price      |-> RInt(prices[1]),
         price_variance    |-> RInt(0),
         reliability_score |-> RInt(1),
         recommendation    |-> "Single source: " \o points[1].source]

\* The branch len(prices) == 1.
SingleSource(m, points) ==
    LET prices == PricesOf(points)
    IN  [market_type       |-> m,
         primary_price     |-> points[1],
         all_prices        |-> points,
         price_range       |-> <<prices[1], prices[1]>>,
         average_price     |-> RInt(prices[1]),
         median_price      |-> RInt(prices[1]),
         price_variance    |-> RInt(0),
         reliability_score |-> points[1].confidence,
         recommendation    |-> "Single source: " \o points[1].source]

\* The branch of several sources.
MultiSource(m, points) ==
    LET prices == PricesOf(points)
        range == <<SeqMin(prices), SeqMax(prices)>>
        average == mean(prices)
        variance == pvariance(prices)
    IN  [market_type       |-> m,
         primary_price     |-> points[1],
         all_prices        |-> points,
         price_range       |-> range,
         average_price     |-> average,
         median_price      |-> median(prices),
         price_variance    |-> variance,
         reliability_score |->
             reliability(ConfidencesOf(points), price_consistency(variance, average)),
         recommendation    |-> recommendation(price_spread(range, average), Len(points))]

\* The PriceComparison of one market from its sorted points.
Comparison(m, points) ==
    IF Len(points) = 1 THEN SingleSource(m, points) ELSE MultiSource(m, points)

MarketsIn(price_points) == {price_points[k].market_type : k \in 1..Len(price_points)}

\* A comparison that walks the configured markets and gives a market
\* without points an entry without values.
compare_prices_of_configured(price_points) ==
    [m \in DOMAIN market_info |->
        LET points == SortByConfidence(GroupByMarket(price_points, m))
        IN  IF points = <<>>
            THEN [market_type |-> m, all_prices |-> <<>>]
            ELSE Comparison(m, points)]

\* The mapping of every market of the input to its PriceComparison.
compare_prices(price_points) ==
    [m \in MarketsIn(price_points) |->
        Comparison(m, SortByConfidence(GroupByMarket(price_points, m)))]

----------------------------------------------------------------------------
(* The inputs.                                                             *)

Sources == {"webgia.com", "market_estimate"}
Markets == {"robusta_london", "arabica_newyork"}
Times == {1, 2}
Confidences == {R(1, 10), R(10, 10)}
\* cents/lb: 390 and 410 lie 5% of their mean apart, 370 and 430 lie 15% apart.
Prices == {10, 370, 390, 410, 430}

\* Points of every source, market, time and confidence at one price, and
\* points of one source and one market at every price and confidence:
\* sources and timestamps are carried along by compare_prices, never
\* compared, and prices are compared only within one market.
PricePoints ==
    [source : Sources, price : {390}, timestamp : Times,
     confidence : Confidences, market_type : Markets]
    \cup
    [source : {"webgia.com"}, price : Prices, timestamp : {1},
     confidence : Confidences, market_type : {"arabica_newyork"}]

NoComparisons == [m \in {} |-> 0]

\* The scraper after construction: an empty cache, no source taken, no call.
ScraperConstructed ==
    /\ price_cache = [k \in {} |-> 0]
    /\ source_index = 0
    /\ sources_used = <<>>
    /\ failed_sources = <<>>
    /\ compare_calls = 0

\* The price engine and the scrape cycle before anything was collected.
EngineAtRest ==
    /\ all_price_points = <<>>
    /\ comparisons = NoComparisons
    /\ price = 0
    /\ market_type = "robusta_london"
    /\ score = RInt(0)
    /\ ScraperConstructed

\* No call of get_page_content has begun.
NoFetch ==
    /\ max_retries = 0
    /\ attempt = 0
    /\ requests_sent = 0
    /\ delays = 0
    /\ response = <<>>
    /\ result = <<>>

\* No status has been asked for and no pre-market time calculated.
NoTiming ==
    /\ market_id = ""
    /\ local_now = <<>>
    /\ status = ""
    /\ market_open = <<>>
    /\ minutes_before = 0
    /\ pre_market_times = <<>>

\* The scheduler as constructed: not running, no thread.
NoScheduler ==
    /\ is_running = FALSE
    /\ scheduler_thread = 0
    /\ threads = <<>>
    /\ jobs = FALSE
    /\ stopped = {}

\* The notifier as constructed.
NoNotifier ==
    /\ consecutive_failures = 0
    /\ last_successful_run = <<>>
    /\ error_notifications = <<>>
    /\ runs = <<>>

\* The market scraper as constructed: empty histories.
NoHistory ==
    /\ price_history = [robusta |-> <<>>, arabica |-> <<>>]
    /\ scraped = [robusta |-> <<>>, arabica |-> <<>>]
    /\ scrapes = 0

\* scrape_all_prices has not returned and the services are as constructed.
NoServices == report = <<>> /\ NoScheduler /\ NoNotifier /\ NoHistory

Init ==
    /\ all_price_points = <<>>
    /\ comparisons = NoComparisons
    /\ pc = "collect"
    /\ price = 0
    /\ market_type = "robusta_london"
    /\ score = RInt(0)
    /\ ScraperConstructed
    /\ NoFetch
    /\ NoTiming
    /\ NoServices

\* A caller puts one more point on the list it will hand over.
AddPoint(p) ==
    /\ pc = "collect"
    /\ Len(all_price_points) < MaxPoints
    /\ all_price_points' = Append(all_price_points, p)
    /\ UNCHANGED <<comparisons, pc, price, market_type, score,
                   scraper_vars, compare_calls>>
    /\ UNCHANGED other_vars

\* A call that sorts the list of the caller, not the lists of the markets.
ComparePricesSortingInput ==
    /\ pc = "collect"
    /\ compare_calls < MaxCalls
    /\ comparisons' = compare_prices(all_price_points)
    /\ all_price_points' = SortByConfidence(all_price_points)
    /\ compare_calls' = compare_calls + 1
    /\ pc' = "compared"
    /\ UNCHANGED <<price, market_type, score, scraper_vars>>
    /\ UNCHANGED other_vars

\* comparisons = self.compare_prices(all_price_points)
ComparePrices ==
    /\ pc = "collect"
    /\ compare_calls < MaxCalls
    /\ comparisons' = compare_prices(all_price_points)
    /\ compare_calls' = compare_calls + 1
    /\ pc' = "compared"
    /\ UNCHANGED <<all_price_points, price, market_type, score, scraper_vars>>
    /\ UNCHANGED other_vars

Next ==
    \/ \E p \in PricePoints : AddPoint(p)
    \/ ComparePrices

Spec == Init /\ [][Next]_vars

\* Lists of points of few sources and times, for the comparison of the
\* orders of one list.
ReorderPoints ==
    [source : {"webgia.com"}, price : {10, 390, 430}, timestamp : {1},
     confidence : Confidences, market_type : Markets]

NextReorder ==
    \/ \E p \in ReorderPoints : AddPoint(p)
    \/ ComparePrices

SpecReorder == Init /\ [][NextReorder]_vars

\* Points of one market whose prices add up to 0 in some lists.
DegeneratePoints ==
    [source : {"webgia.com"}, price : {-10, 0, 10}, timestamp : {1},
     confidence : Confidences, market_type : {"arabica_newyork"}]

NextDegenerate ==
    \/ \E p \in DegeneratePoints : AddPoint(p)
    \/ ComparePrices

SpecDegenerate == Init /\ [][NextDegenerate]_vars

\* Calls of compare_prices and of validate_price one after the other: a
\* caller validates prices, fills a list, has it compared, and starts over
\* with a new list while it still holds the mapping of the call before.
CallPoints ==
    {[source |-> "webgia.com", price |-> 390, timestamp |-> 1,
      confidence |-> R(1, 10), market_type |-> "arabica_newyork"],
     [source |-> "market_estimate", price |-> 410, timestamp |-> 1,
      confidence |-> R(10, 10), market_type |-> "arabica_newyork"],
     [source |-> "webgia.com", price |-> 390, timestamp |-> 2,
      confidence |-> R(1, 10), market_type |-> "robusta_london"]}

\* confidence = self.validate_price(price, market_type), for a price and a
\* market of the caller's choice.
ValidateCall(p, m) ==
    /\ pc = "collect"
    /\ price' = p
    /\ market_type' = m
    /\ score' = validate_price(p, m)
    /\ UNCHANGED <<all_price_points, comparisons, pc, scraper_vars, compare_calls>>
    /\ UNCHANGED other_vars

\* The caller starts a new list.
NewList ==
    /\ pc = "compared"
    /\ all_price_points' = <<>>
    /\ pc' = "collect"
    /\ UNCHANGED <<comparisons, price, market_type, score, scraper_vars,
                   compare_calls>>
    /\ UNCHANGED other_vars

NextCalls ==
    \/ \E p \in CallPoints : AddPoint(p)
    \/ \E p \in CallPoints : ValidateCall(p.price, p.market_type)
    \/ ComparePrices
    \/ NewList

SpecCalls == Init /\ [][NextCalls]_vars

----------------------------------------------------------------------------
(* validate_price applied to one price and one market key.                 *)

\* The configured keys, a key that is not configured and a configured key
\* in other letters (the lookup is exact).
MarketKeys == DOMAIN market_info \cup {"nonexistent_market", "ROBUSTA_LONDON"}

\* The limits of the three bands of a configured market.
BandLimits(m) ==
    LET lo == market_info[m].min_price
        hi == market_info[m].max_price
    IN  {lo \div 2, (lo * 8) \div 10, lo, hi, (hi * 12) \div 10, (hi * 15) \div 10}

\* Every band limit of every configured market, and the prices next to it.
ValidatedPrices ==
    {-1, 0} \cup
    UNION {{l - 1, l, l + 1} : l \in UNION {BandLimits(m) : m \in DOMAIN market_info}}

InitValidate ==
    /\ all_price_points = <<>>
    /\ comparisons = NoComparisons
    /\ pc = "call"
    /\ price \in ValidatedPrices
    /\ market_type \in MarketKeys
    /\ score = RInt(0)
    /\ ScraperConstructed
    /\ NoFetch
    /\ NoTiming
    /\ NoServices

\* confidence = self.validate_price(price, market_type)
ValidatePrice ==
    /\ pc = "call"
    /\ score' = validate_price(price, market_type)
    /\ pc' = "return"
    /\ UNCHANGED <<all_price_points, comparisons, price, market_type,
                   scraper_vars, compare_calls>>
    /\ UNCHANGED other_vars

NextValidate == ValidatePrice

SpecValidate == InitValidate /\ [][NextValidate]_vars

\* Prices far outside every configured range.
FarPrices == {-1000000, 1000000}

InitValidateTwice ==
    /\ all_price_points = <<>>
    /\ comparisons = NoComparisons
    /\ pc = "call"
    /\ price \in ValidatedPrices \cup FarPrices
    /\ market_type \in MarketKeys
    /\ score = RInt(0)
    /\ ScraperConstructed
    /\ NoFetch
    /\ NoTiming
    /\ NoServices

\* A second call with the arguments of the first.
ValidatePriceAgain ==
    /\ pc = "return"
    /\ score' = validate_price(price, market_type)
    /\ pc' = "return_again"
    /\ UNCHANGED <<all_price_points, comparisons, price, market_type,
                   scraper_vars, compare_calls>>
    /\ UNCHANGED other_vars

NextValidateTwice ==
    \/ ValidatePrice
    \/ ValidatePriceAgain

SpecValidateTwice == InitValidateTwice /\ [][NextValidateTwice]_vars

----------------------------------------------------------------------------
(* One cycle of scrape_all_prices over the configured sources.  A page is  *)
(* the part of the HTML an extractor reads: the numbers it finds where it  *)
(* looks for a price.  The points of a cycle carry unit and raw_data as    *)
(* well; raw_data of a point read from a page is the number as text.  The  *)
(* two estimates that are not whole numbers, 247.5 and 246.8 cents/lb, are *)
(* carried as 247 and 246: each lies inside the range of its market as its *)
(* whole part does.                                                        *)

\* self.sources, in the order of the list.
sources ==
    <<[name |-> "webgia_international", scraper_method |-> "scrape_webgia_enhanced",
       backup |-> FALSE],
      [name |-> "investing_robusta", scraper_method |-> "scrape_investing_robusta",
       backup |-> TRUE],
      [name |-> "investing_arabica", scraper_method |-> "scrape_investing_arabica",
       backup |-> TRUE],
      [name |-> "giacaphe_vietnam", scraper_method |-> "scrape_giacaphe",
       backup |-> FALSE],
      [name |-> "webgia_vietnam", scraper_method |-> "scrape_webgia_vietnam",
       backup |-> TRUE]>>

\* market_info[market_type]['unit']
market_unit ==
    [robusta_london          |-> "USD/tonne",
     arabica_newyork         |-> "cents/lb",
     robusta_vietnam         |-> "VND/kg",
     robusta_vietnam_south   |-> "VND/kg",
     robusta_vietnam_central |-> "VND/kg",
     robusta_vietnam_local   |-> "VND/kg"]

PricePoint(source, p, unit, timestamp, confidence, m, raw_data) ==
    [source |-> source, price |-> p, unit |-> unit, timestamp |-> timestamp,
     confidence |-> confidence, market_type |-> m, raw_data |-> raw_data]

\* The estimates with the confidence validate_price gives their prices.
get_giacaphe_estimates_validated(now) ==
    <<PricePoint("giacaphe.com (estimated)", 58000, "VND/kg", now,
                 validate_price(58000, "robusta_vietnam_south"),
                 "robusta_vietnam_south", "Estimated 58,000 VND/kg"),
      PricePoint("giacaphe.com (estimated)", 56000, "VND/kg", now,
                 validate_price(56000, "robusta_vietnam_central"),
                 "robusta_vietnam_central", "Estimated 56,000 VND/kg")>>

\* The estimates of the South and of the Central market, in this order.
get_giacaphe_estimates(now) ==
    <<PricePoint("giacaphe.com (estimated)", 58000, "VND/kg", now, R(4, 10),
                 "robusta_vietnam_south", "Estimated 58,000 VND/kg"),
      PricePoint("giacaphe.com (estimated)", 56000, "VND/kg", now, R(4, 10),
                 "robusta_vietnam_central", "Estimated 56,000 VND/kg")>>

\* The market of a container: the first region named in its context.
RegionOf(context) ==
    IF "mien nam" \in context THEN "robusta_vietnam_south"
    ELSE IF "mien trung" \in context THEN "robusta_vietnam_central"
    ELSE "robusta_vietnam"

\* The loop over price_containers: a point for every price above 30000.
RECURSIVE GiacapheResults(_, _)
GiacapheResults(containers, now) ==
    IF containers = <<>> THEN <<>>
    ELSE LET c == Head(containers)
             rest == GiacapheResults(Tail(containers), now)
         IN  IF c.price > 30000
             THEN <<PricePoint("giacaphe.com", c.price, "VND/kg", now,
                               validate_price(c.price, RegionOf(c.context)),
                               RegionOf(c.context), ToString(c.price))>> \o rest
             ELSE rest

scrape_giacaphe(html, now) ==
    IF html.challenge THEN get_giacaphe_estimates(now)
    ELSE GiacapheResults(html.containers, now)

\* The sections with one unit for both markets.
coffee_sections_of_one_unit ==
    <<[market_key |-> "robusta_london", unit |-> "USD/tonne"],
      [market_key |-> "arabica_newyork", unit |-> "USD/tonne"]>>

\* (market_key, unit) of coffee_sections.
coffee_sections ==
    <<[market_key |-> "robusta_london", unit |-> "USD/tonne"],
      [market_key |-> "arabica_newyork", unit |-> "cents/lb"]>>

\* The first candidate of the table within 1000..10000 or 100..500, as a
\* list of one price, or the empty list for None.
RECURSIVE parse_webgia_table(_)
parse_webgia_table(candidates) ==
    IF candidates = <<>> THEN <<>>
    ELSE LET c == Head(candidates)
         IN  IF (1000 <= c /\ c <= 10000) \/ (100 <= c /\ c <= 500)
             THEN <<c>>
             ELSE parse_webgia_table(Tail(candidates))

get_webgia_fallback(now) ==
    <<PricePoint("webgia.com (fallback)", 4280, market_unit["robusta_london"], now,
                 R(4, 10), "robusta_london", "Fallback estimate: 4280.0"),
      PricePoint("webgia.com (fallback)", 247, market_unit["arabica_newyork"], now,
                 R(4, 10), "arabica_newyork", "Fallback estimate: 247.5")>>

\* The point of one section of the page, if its table gives a price.
WebgiaSection(html, section, now) ==
    LET price_data == parse_webgia_table(html[section.market_key])
    IN  IF price_data = <<>> THEN <<>>
        ELSE <<PricePoint("webgia.com", price_data[1], section.unit, now,
                          validate_price(price_data[1], section.market_key),
                          section.market_key, ToString(price_data[1]))>>

scrape_webgia_enhanced(html, now) ==
    IF ~html.coffee THEN <<>>
    ELSE LET results == WebgiaSection(html, coffee_sections[1], now)
                            \o WebgiaSection(html, coffee_sections[2], now)
         IN  IF results = <<>> THEN get_webgia_fallback(now) ELSE results

\* The loop over all_elements: a point for every price within
\* 40000..150000, up to and including the first one scored above 0.7.
RECURSIVE WebgiaVietnamResults(_, _)
WebgiaVietnamResults(elements, now) ==
    IF elements = <<>> THEN <<>>
    ELSE LET e == Head(elements)
             confidence == validate_price(e, "robusta_vietnam_local")
             point == PricePoint("webgia.com/vietnam", e, "VND/kg", now, confidence,
                                 "robusta_vietnam_local", ToString(e))
         IN  IF 40000 <= e /\ e <= 150000
             THEN IF RLt(R(7, 10), confidence)
                  THEN <<point>>
                  ELSE <<point>> \o WebgiaVietnamResults(Tail(elements), now)
             ELSE WebgiaVietnamResults(Tail(elements), now)

\* The first number of the page text within 45000..120000, at 0.8 of its
\* validated confidence.
RECURSIVE WebgiaVietnamPattern(_, _)
WebgiaVietnamPattern(price_matches, now) ==
    IF price_matches = <<>> THEN <<>>
    ELSE LET match == Head(price_matches)
         IN  IF 45000 <= match /\ match <= 120000
             THEN <<PricePoint("webgia.com/vietnam", match, "VND/kg", now,
                               RMul(validate_price(match, "robusta_vietnam_local"),
                                    R(8, 10)),
                               "robusta_vietnam_local",
                               "Pattern match: " \o ToString(match))>>
             ELSE WebgiaVietnamPattern(Tail(price_matches), now)

scrape_webgia_vietnam(html, now) ==
    LET results == WebgiaVietnamResults(html.elements, now)
    IN  IF results = <<>> THEN WebgiaVietnamPattern(html.price_matches, now)
        ELSE results

scrape_investing_robusta(html, now) ==
    IF html.price_element = <<>> THEN <<>>
    ELSE LET p == html.price_element[1]
         IN  IF 2000 <= p /\ p <= 8000
             THEN <<PricePoint("investing.com/robusta", p, "USD/tonne", now,
                               validate_price(p, "robusta_london"),
                               "robusta_london", ToString(p))>>
             ELSE <<>>

scrape_investing_arabica(html, now) ==
    IF html.price_element = <<>> THEN <<>>
    ELSE LET p == html.price_element[1]
         IN  IF 100 <= p /\ p <= 400
             THEN <<PricePoint("investing.com/arabica", p, "cents/lb", now,
                               validate_price(p, "arabica_newyork"),
                               "arabica_newyork", ToString(p))>>
             ELSE <<>>

get_market_estimates(now) ==
    <<PricePoint("market_estimate", 4275, market_unit["robusta_london"], now,
                 R(4, 10), "robusta_london", "Market estimate: 4275.0"),
      PricePoint("market_estimate", 246, market_unit["arabica_newyork"], now,
                 R(4, 10), "arabica_newyork", "Market estimate: 246.8")>>

\* source['scraper_method'](html)
scraper_method(source, html, now) ==
    CASE source.scraper_method = "scrape_webgia_enhanced" ->
             scrape_webgia_enhanced(html, now)
      [] source.scraper_method = "scrape_investing_robusta" ->
             scrape_investing_robusta(html, now)
      [] source.scraper_method = "scrape_investing_arabica" ->
             scrape_investing_arabica(html, now)
      [] source.scraper_method = "scrape_giacaphe" ->
             scrape_giacaphe(html, now)
      [] source.scraper_method = "scrape_webgia_vietnam" ->
             scrape_webgia_vietnam(html, now)

\* The pages get_page_content may return for a source.
WebgiaPages ==
    {[coffee |-> FALSE, robusta_london |-> <<>>, arabica_newyork |-> <<>>],
     [coffee |-> TRUE, robusta_london |-> <<>>, arabica_newyork |-> <<50>>],
     [coffee |-> TRUE, robusta_london |-> <<4300>>, arabica_newyork |-> <<250>>],
     [coffee |-> TRUE, robusta_london |-> <<999, 450>>, arabica_newyork |-> <<>>]}

InvestingRobustaPages ==
    {[price_element |-> <<>>], [price_element |-> <<1999>>],
     [price_element |-> <<4280>>]}

InvestingArabicaPages ==
    {[price_element |-> <<>>], [price_element |-> <<401>>],
     [price_element |-> <<252>>]}

GiacaphePages ==
    {[challenge |-> TRUE, containers |-> <<>>],
     [challenge |-> FALSE, containers |-> <<[price |-> 30000, context |-> {"mien nam"}]>>],
     [challenge |-> FALSE,
      containers |-> <<[price |-> 31000, context |-> {"mien nam", "mien trung"}],
                       [price |-> 33000, context |-> {"mien nam"}]>>],
     [challenge |-> FALSE,
      containers |-> <<[price |-> 57000, context |-> {"mien trung"}],
                       [price |-> 59000, context |-> {}]>>]}

WebgiaVietnamPages ==
    {[elements |-> <<>>, price_matches |-> <<>>],
     [elements |-> <<39999>>, price_matches |-> <<1234, 39999>>],
     [elements |-> <<40000, 41000>>, price_matches |-> <<40000, 41000>>],
     [elements |-> <<60000, 61000>>, price_matches |-> <<60000, 61000>>],
     [elements |-> <<>>, price_matches |-> <<1234, 60000, 61000>>]}

Pages(source) ==
    CASE source.scraper_method = "scrape_webgia_enhanced" -> WebgiaPages
      [] source.scraper_method = "scrape_investing_robusta" -> InvestingRobustaPages
      [] source.scraper_method = "scrape_investing_arabica" -> InvestingArabicaPages
      [] source.scraper_method = "scrape_giacaphe" -> GiacaphePages
      [] source.scraper_method = "scrape_webgia_vietnam" -> WebgiaVietnamPages

InitScrape ==
    /\ all_price_points = <<>>
    /\ comparisons = NoComparisons
    /\ pc = "scrape"
    /\ price = 0
    /\ market_type = "robusta_london"
    /\ score = RInt(0)
    /\ ScraperConstructed
    /\ NoFetch
    /\ NoTiming
    /\ NoServices

\* The loop left after its first turn.
FirstSourceTaken == source_index >= 1

\* The loop over self.sources has taken every source.
AllSourcesTaken == source_index = Len(sources)

\* One turn of the loop with a page: the extractor runs; its points are
\* added and the source is noted as used, or it gave none and is noted as
\* failed unless it is a backup.
SourceScraped(html) ==
    /\ pc = "scrape"
    /\ ~AllSourcesTaken
    /\ LET source == sources[source_index + 1]
           price_points == scraper_method(source, html, source_index + 1)
       IN  IF price_points # <<>>
           THEN /\ all_price_points' = all_price_points \o price_points
                /\ sources_used' = Append(sources_used, source.name)
                /\ UNCHANGED failed_sources
           ELSE /\ failed_sources' = IF source.backup THEN failed_sources
                                     ELSE Append(failed_sources, source.name)
                /\ UNCHANGED <<all_price_points, sources_used>>
    /\ source_index' = source_index + 1
    /\ UNCHANGED <<comparisons, pc, price, market_type, score, price_cache,
                   compare_calls>>
    /\ UNCHANGED other_vars

\* A failure that leaves the loop: no later source is taken.
SourceFailedEndingLoop ==
    /\ pc = "scrape"
    /\ ~AllSourcesTaken
    /\ failed_sources' = Append(failed_sources, sources[source_index + 1].name)
    /\ source_index' = Len(sources)
    /\ UNCHANGED <<all_price_points, comparisons, pc, price, market_type, score,
                   price_cache, sources_used, compare_calls>>
    /\ UNCHANGED other_vars

\* One turn of the loop in which get_page_content returned None or which
\* raised before any point was added: the source is noted as failed.
SourceFailed ==
    /\ pc = "scrape"
    /\ ~AllSourcesTaken
    /\ failed_sources' = Append(failed_sources, sources[source_index + 1].name)
    /\ source_index' = source_index + 1
    /\ UNCHANGED <<all_price_points, comparisons, pc, price, market_type, score,
                   price_cache, sources_used, compare_calls>>
    /\ UNCHANGED other_vars

\* The list handed to compare_prices as the loop left it, also when empty.
FinishCollectionWithoutEstimates ==
    /\ pc = "scrape"
    /\ AllSourcesTaken
    /\ pc' = "collect"
    /\ UNCHANGED <<all_price_points, sources_used, comparisons, price,
                   market_type, score, price_cache, source_index,
                   failed_sources, compare_calls>>
    /\ UNCHANGED other_vars

\* After the loop: with no point collected the market estimates take the
\* place of the list; the list is then ready for compare_prices.
FinishCollection ==
    /\ pc = "scrape"
    /\ AllSourcesTaken
    /\ IF all_price_points = <<>>
       THEN /\ all_price_points' = get_market_estimates(Len(sources) + 1)
            /\ sources_used' = <<"market_estimates">>
       ELSE UNCHANGED <<all_price_points, sources_used>>
    /\ pc' = "collect"
    /\ UNCHANGED <<comparisons, price, market_type, score, price_cache,
                   source_index, failed_sources, compare_calls>>
    /\ UNCHANGED other_vars

\* The dictionary scrape_all_prices returns, as far as it is counted from
\* the lists and the comparisons.
results_of(points, used, failed, compared) ==
    [success_count |-> Len(used),
     total_price_points |-> Len(points),
     sources_used |-> used,
     failed_sources |-> failed,
     total_markets |-> Cardinality(DOMAIN compared),
     status |-> IF used # <<>> THEN "Active"
                ELSE "Failed - no sources available"]

\* After compare_prices: the results are organised and returned.
ReturnResults ==
    /\ pc = "compared"
    /\ report' = <<results_of(all_price_points, sources_used, failed_sources,
                              comparisons)>>
    /\ pc' = "returned"
    /\ UNCHANGED <<engine_vars, fetch_vars, status_vars, timing_vars,
                   scheduler_vars, notifier_vars, history_vars>>

NextScrape ==
    \/ \E html \in Pages(sources[IF AllSourcesTaken THEN 1 ELSE source_index + 1]) :
           SourceScraped(html)
    \/ SourceFailed
    \/ FinishCollection
    \/ ComparePrices
    \/ ReturnResults

SpecScrape == InitScrape /\ [][NextScrape]_vars

----------------------------------------------------------------------------
(* get_page_content of EnhancedMultiSourceScraper: up to max_retries       *)
(* requests, the first response of more than 300 characters is returned.   *)
(* A response text is carried by its length and by the phrase it holds.    *)

\* The largest max_retries a caller passes.
MaxRetries == 3


NoText == <<>>

Text(length, phrase) == [length |-> length, phrase |-> phrase]

\* len(response.text)
len(text) == text.length

PageTexts == [length : {0, 300, 301, 6000}, phrase : {"coffee", "Just a moment"}]

\* get_page_content(url, max_retries) is entered.
InitFetch ==
    /\ EngineAtRest
    /\ pc = "fetch"
    /\ max_retries \in 0 .. MaxRetries
    /\ attempt = 0
    /\ requests_sent = 0
    /\ delays = 0
    /\ response = NoText
    /\ result = NoText
    /\ NoTiming
    /\ NoServices

\* A text of exactly 300 characters is returned as well.
FetchRespondedFrom300(text) ==
    /\ pc = "fetch"
    /\ attempt < max_retries
    /\ requests_sent' = requests_sent + 1
    /\ response' = <<text>>
    /\ IF len(text) >= 300
       THEN /\ result' = <<text>>
            /\ pc' = "returned"
            /\ UNCHANGED attempt
       ELSE /\ attempt' = attempt + 1
            /\ UNCHANGED <<result, pc>>
    /\ UNCHANGED <<max_retries, delays, engine_vars>>
    /\ UNCHANGED <<status_vars, timing_vars>>
    /\ UNCHANGED service_vars

\* One attempt whose request is answered with status 2xx: the text is
\* returned when it has more than 300 characters, otherwise a warning is
\* logged and the loop goes on.
FetchResponded(text) ==
    /\ pc = "fetch"
    /\ attempt < max_retries
    /\ requests_sent' = requests_sent + 1
    /\ response' = <<text>>
    /\ IF len(text) > 300
       THEN /\ result' = <<text>>
            /\ pc' = "returned"
            /\ UNCHANGED attempt
       ELSE /\ attempt' = attempt + 1
            /\ UNCHANGED <<result, pc>>
    /\ UNCHANGED <<max_retries, delays, engine_vars>>
    /\ UNCHANGED <<status_vars, timing_vars>>
    /\ UNCHANGED service_vars

\* One attempt whose session.get or raise_for_status raises: the exception
\* is caught, a warning is logged, and the loop goes on after time.sleep(1).
FetchRaised ==
    /\ pc = "fetch"
    /\ attempt < max_retries
    /\ requests_sent' = requests_sent + 1
    /\ delays' = delays + 1
    /\ attempt' = attempt + 1
    /\ UNCHANGED <<max_retries, response, result, pc, engine_vars>>
    /\ UNCHANGED <<status_vars, timing_vars>>
    /\ UNCHANGED service_vars

\* The loop has ended without a return: return None.
FetchExhausted ==
    /\ pc = "fetch"
    /\ attempt = max_retries
    /\ result' = NoText
    /\ pc' = "returned"
    /\ UNCHANGED <<max_retries, attempt, requests_sent, delays, response,
                   engine_vars>>
    /\ UNCHANGED <<status_vars, timing_vars>>
    /\ UNCHANGED service_vars

NextFetch ==
    \/ \E text \in PageTexts : FetchResponded(text)
    \/ FetchRaised
    \/ FetchExhausted

SpecFetch == InitFetch /\ [][NextFetch]_vars

----------------------------------------------------------------------------
(* get_page_content of InvestingMarketScraper: up to max_retries attempts   *)
(* with a backoff before every attempt after the first; a response is      *)
(* accepted when it has 5000 characters or more and none of the blocking   *)
(* indicators is found in its lower-cased text.                            *)

blocking_indicators ==
    <<"Just a moment", "Cloudflare", "Access denied", "blocked", "captcha",
      "Please verify you are a human">>

\* What a response text holds beside its filling.
Phrases ==
    {"coffee", "Just a moment", "just a moment", "Cloudflare", "cloudflare",
     "Access denied", "blocked", "Blocked", "captcha", "CAPTCHA",
     "Please verify you are a human"}

\* str.lower on the phrases.
lower(phrase) ==
    CASE phrase = "Just a moment" -> "just a moment"
      [] phrase = "Cloudflare" -> "cloudflare"
      [] phrase = "Access denied" -> "access denied"
      [] phrase = "Blocked" -> "blocked"
      [] phrase = "CAPTCHA" -> "captcha"
      [] phrase = "Please verify you are a human" -> "please verify you are a human"
      [] OTHER -> phrase

\* content.lower()
content_lower(content) == Text(len(content), lower(content.phrase))

\* indicator in text: the filling of a text holds no indicator.
In(indicator, text) == indicator = text.phrase

\* any(indicator in content_lower for indicator in blocking_indicators)
blocked(content) ==
    \E k \in DOMAIN blocking_indicators :
        In(blocking_indicators[k], content_lower(content))

InvestingPageTexts == [length : {4999, 5000, 6000}, phrase : Phrases]

\* The names bound in the module where get_page_content looks up random:
\* random is imported inside setup_session only.
module_names ==
    {"requests", "time", "re", "json", "datetime", "BeautifulSoup", "logging",
     "pytz", "schedule", "threading", "dataclass"}

\* delay = 2 ** attempt + random.uniform(0, 1) raises NameError.
backoff_raises == attempt > 0 /\ "random" \notin module_names

InitInvestingFetch ==
    /\ EngineAtRest
    /\ pc = "fetch"
    /\ max_retries \in 0 .. MaxRetries
    /\ attempt = 0
    /\ requests_sent = 0
    /\ delays = 0
    /\ response = NoText
    /\ result = NoText
    /\ NoTiming
    /\ NoServices

\* The backoff of one attempt: time.sleep(delay) after the first attempt.
backoff == IF attempt > 0 THEN delays + 1 ELSE delays

\* An attempt after the first: the NameError of the backoff is no
\* RequestException and leaves get_page_content.
InvestingBackoffRaised ==
    /\ pc = "fetch"
    /\ attempt < max_retries
    /\ backoff_raises
    /\ pc' = "raised"
    /\ UNCHANGED <<fetch_vars, engine_vars>>
    /\ UNCHANGED <<status_vars, timing_vars>>
    /\ UNCHANGED service_vars

\* One attempt whose request is answered with status 2xx.
InvestingResponded(content) ==
    /\ pc = "fetch"
    /\ attempt < max_retries
    /\ ~backoff_raises
    /\ delays' = backoff
    /\ requests_sent' = requests_sent + 1
    /\ response' = <<content>>
    /\ IF len(content) < 5000 \/ blocked(content)
       THEN /\ attempt' = attempt + 1
            /\ UNCHANGED <<result, pc>>
       ELSE /\ result' = <<content>>
            /\ pc' = "returned"
            /\ UNCHANGED attempt
    /\ UNCHANGED <<max_retries, engine_vars>>
    /\ UNCHANGED <<status_vars, timing_vars>>
    /\ UNCHANGED service_vars

\* One attempt whose session.get or raise_for_status raises a
\* RequestException: it is logged and the loop goes on.
InvestingRequestFailed ==
    /\ pc = "fetch"
    /\ attempt < max_retries
    /\ ~backoff_raises
    /\ delays' = backoff
    /\ requests_sent' = requests_sent + 1
    /\ attempt' = attempt + 1
    /\ UNCHANGED <<max_retries, response, result, pc, engine_vars>>
    /\ UNCHANGED <<status_vars, timing_vars>>
    /\ UNCHANGED service_vars

\* The loop has ended without a return: return None.
InvestingExhausted ==
    /\ pc = "fetch"
    /\ attempt = max_retries
    /\ result' = NoText
    /\ pc' = "returned"
    /\ UNCHANGED <<max_retries, attempt, requests_sent, delays, response,
                   engine_vars>>
    /\ UNCHANGED <<status_vars, timing_vars>>
    /\ UNCHANGED service_vars

NextInvestingFetch ==
    \/ \E content \in InvestingPageTexts : InvestingResponded(content)
    \/ InvestingRequestFailed
    \/ InvestingBackoffRaised
    \/ InvestingExhausted

SpecInvestingFetch == InitInvestingFetch /\ [][NextInvestingFetch]_vars

----------------------------------------------------------------------------
(* Clock strings and the market-status functions.  A clock string "HH:MM"  *)
(* is the sequence of its characters, a datetime the number of minutes     *)
(* since 0001-01-01 00:00, a time of day is counted in seconds.            *)

DigitChars == <<"0", "1", "2", "3", "4", "5", "6", "7", "8", "9">>

\* int(c) of one digit.
DigitOf(c) == (CHOOSE k \in DOMAIN DigitChars : DigitChars[k] = c) - 1

\* int(field) of a field of one or two digits.
FieldOf(field) ==
    IF Len(field) = 1 THEN DigitOf(field[1])
    ELSE 10 * DigitOf(field[1]) + DigitOf(field[2])

IsField(field) ==
    /\ Len(field) \in {1, 2}
    /\ \A k \in DOMAIN field : \E d \in DOMAIN DigitChars : DigitChars[d] = field[k]

\* The day strptime gives to a string without a date: 1900-01-01, counted
\* in days since 0001-01-01.
strptime_day == 693595

MinutesPerDay == 1440

\* datetime.strptime(s, "%H:%M"): <<the datetime>>, or <<>> for ValueError.
strptime(s) ==
    LET colons == {k \in DOMAIN s : s[k] = ":"}
    IN  IF Cardinality(colons) # 1 THEN <<>>
        ELSE LET k == CHOOSE c \in colons : TRUE
                 hours == SubSeq(s, 1, k - 1)
                 minutes == SubSeq(s, k + 1, Len(s))
             IN  IF /\ IsField(hours) /\ IsField(minutes)
                    /\ FieldOf(hours) <= 23 /\ FieldOf(minutes) <= 59
                 THEN <<strptime_day * MinutesPerDay
                          + 60 * FieldOf(hours) + FieldOf(minutes)>>
                 ELSE <<>>

\* Two digits, zero-padded.
TwoDigits(n) == <<DigitChars[(n \div 10) + 1], DigitChars[(n % 10) + 1]>>

\* dt.strftime("%H:%M")
strftime(dt) ==
    TwoDigits((dt % MinutesPerDay) \div 60) \o <<":">>
        \o TwoDigits((dt % MinutesPerDay) % 60)

\* dt.time() of a parsed clock string, in seconds of the day.
time_of(dt) == (dt % MinutesPerDay) * 60

\* now.time(), in seconds of the day.
current_time_of(instant) ==
    instant.hour * 3600 + instant.minute * 60 + instant.second

\* market_schedules of MarketConfigManager.
market_schedules ==
    [ice_europe_robusta |->
         [open_time |-> <<"0", "9", ":", "0", "0">>,
          close_time |-> <<"1", "7", ":", "3", "0">>,
          weekdays_only |-> TRUE, pre_market_minutes |-> 30, active |-> TRUE],
     ice_us_arabica |->
         [open_time |-> <<"0", "9", ":", "1", "5">>,
          close_time |-> <<"1", "4", ":", "3", "0">>,
          weekdays_only |-> TRUE, pre_market_minutes |-> 30, active |-> TRUE],
     vietnam_domestic |->
         [open_time |-> <<"0", "8", ":", "3", "0">>,
          close_time |-> <<"1", "5", ":", "0", "0">>,
          weekdays_only |-> TRUE, pre_market_minutes |-> 15, active |-> FALSE]]

\* markets of InvestingMarketScraper, their market_hours.
markets ==
    [robusta |->
         [open_time |-> <<"0", "9", ":", "0", "0">>,
          close_time |-> <<"1", "7", ":", "3", "0">>,
          weekend_closed |-> TRUE],
     arabica |->
         [open_time |-> <<"0", "9", ":", "1", "5">>,
          close_time |-> <<"1", "4", ":", "3", "0">>,
          weekend_closed |-> TRUE]]

\* The comparison of the time of day with the close time left strict.
trading_status_before_close(open, close, instant) ==
    IF time_of(open) <= current_time_of(instant)
       /\ current_time_of(instant) < time_of(close)
    THEN "open"
    ELSE IF current_time_of(instant) < time_of(open) THEN "pre_market"
    ELSE "after_hours"

\* The comparison of the time of day with the trading hours.
trading_status(open, close, instant) ==
    IF time_of(open) <= current_time_of(instant)
       /\ current_time_of(instant) <= time_of(close)
    THEN "open"
    ELSE IF current_time_of(instant) < time_of(open) THEN "pre_market"
    ELSE "after_hours"

\* MarketConfigManager.get_market_status_now(id) when the clock of the
\* market shows instant.
get_market_status_now(id, instant) ==
    IF id \notin DOMAIN market_schedules THEN "unknown"
    ELSE LET market == market_schedules[id]
         IN  IF ~market.active THEN "inactive"
             ELSE IF market.weekdays_only /\ instant.weekday >= 5
                  THEN "closed_weekend"
             ELSE IF strptime(market.open_time) = <<>>
                     \/ strptime(market.close_time) = <<>>
                  THEN "error"
             ELSE trading_status(strptime(market.open_time)[1],
                                 strptime(market.close_time)[1], instant)

\* InvestingMarketScraper.get_market_status(coffee_type) when the clock of
\* the market shows instant.
get_market_status(coffee_type, instant) ==
    IF coffee_type \notin DOMAIN markets THEN "unknown"
    ELSE LET market_hours == markets[coffee_type]
         IN  IF market_hours.weekend_closed /\ instant.weekday >= 5
             THEN "closed_weekend"
             ELSE trading_status(strptime(market_hours.open_time)[1],
                                 strptime(market_hours.close_time)[1], instant)

\* The instants the clocks show: weekday 0 is Monday.
Instants ==
    [weekday : 0 .. 6, hour : {0, 8, 9, 14, 15, 17, 23},
     minute : {0, 14, 15, 16, 29, 30, 31, 59}, second : {0, 1, 59}]

MarketIds == DOMAIN market_schedules \cup DOMAIN markets \cup {"liffe"}

\* A status is about to be asked for.
InitStatus ==
    /\ EngineAtRest
    /\ NoFetch
    /\ pc = "status"
    /\ market_id \in MarketIds
    /\ local_now = <<>>
    /\ status = ""
    /\ market_open = <<>>
    /\ minutes_before = 0
    /\ pre_market_times = <<>>
    /\ NoServices

\* config_manager.get_market_status_now(market_id)
GetMarketStatusNow(instant) ==
    /\ pc = "status"
    /\ local_now' = <<instant>>
    /\ status' = get_market_status_now(market_id, instant)
    /\ pc' = "status_now_returned"
    /\ UNCHANGED <<market_id, timing_vars, fetch_vars, engine_vars>>
    /\ UNCHANGED service_vars

\* scraper.get_market_status(coffee_type)
GetMarketStatus(instant) ==
    /\ pc = "status"
    /\ local_now' = <<instant>>
    /\ status' = get_market_status(market_id, instant)
    /\ pc' = "status_returned"
    /\ UNCHANGED <<market_id, timing_vars, fetch_vars, engine_vars>>
    /\ UNCHANGED service_vars

NextStatus ==
    \/ \E instant \in Instants : GetMarketStatusNow(instant)
    \/ \E instant \in Instants : GetMarketStatus(instant)

SpecStatus == InitStatus /\ [][NextStatus]_vars

----------------------------------------------------------------------------
(* The pre-market time calculations of the scheduler and of the            *)
(* configuration manager.                                                  *)

\* open_time - timedelta(minutes=minutes_before): <<the datetime>>, or <<>>
\* for the OverflowError of a date before datetime.min.
minus_minutes(dt, minutes) ==
    IF dt - minutes < 0 THEN <<>> ELSE <<dt - minutes>>

\* The minutes added to the open time instead of subtracted.
calculate_pre_market_time_adding(open, minutes) ==
    IF strptime(open) = <<>> THEN open
    ELSE strftime(strptime(open)[1] + (minutes % MinutesPerDay))

\* MarketTimingScheduler.calculate_pre_market_time
calculate_pre_market_time(open, minutes) ==
    IF strptime(open) = <<>> THEN open
    ELSE IF minus_minutes(strptime(open)[1], minutes) = <<>> THEN open
    ELSE strftime(minus_minutes(strptime(open)[1], minutes)[1])

\* MarketConfigManager._calculate_pre_market_time
calculate_pre_market_time_of_config(open, minutes) ==
    IF strptime(open) = <<>> THEN open
    ELSE IF minus_minutes(strptime(open)[1], minutes) = <<>> THEN open
    ELSE strftime(minus_minutes(strptime(open)[1], minutes)[1])

\* Valid clock strings "HH:MM".
ClockStrings ==
    {s \in {<<a, b, ":", c, d>> : a \in {"0", "1", "2"},
                                   b \in {"0", "1", "3", "4", "9"},
                                   c \in {"0", "1", "3", "5"},
                                   d \in {"0", "1", "5", "9"}} :
        strptime(s) # <<>>}

\* Numbers of minutes: within the day of the open time, beyond it, and on
\* both sides of the first instant a datetime can hold.
MinutesBefore ==
    {0, 1, 15, 30, 60, 541, 1440, 1470,
     strptime_day * MinutesPerDay, strptime_day * MinutesPerDay + 1,
     strptime_day * MinutesPerDay + 541,
     (strptime_day + 1) * MinutesPerDay}

InitPreMarket ==
    /\ EngineAtRest
    /\ NoFetch
    /\ pc = "pre_market"
    /\ market_id = ""
    /\ local_now = <<>>
    /\ status = ""
    /\ market_open \in ClockStrings
    /\ minutes_before \in MinutesBefore
    /\ pre_market_times = <<>>
    /\ NoServices

\* scheduler.calculate_pre_market_time(market_open, minutes_before)
SchedulerCalculates ==
    /\ pc = "pre_market"
    /\ "scheduler" \notin DOMAIN pre_market_times
    /\ pre_market_times' = pre_market_times @@
           ("scheduler" :> calculate_pre_market_time(market_open, minutes_before))
    /\ UNCHANGED <<pc, market_open, minutes_before, status_vars, fetch_vars,
                   engine_vars>>
    /\ UNCHANGED service_vars

\* config_manager._calculate_pre_market_time(market_open, minutes_before)
ConfigCalculates ==
    /\ pc = "pre_market"
    /\ "config" \notin DOMAIN pre_market_times
    /\ pre_market_times' = pre_market_times @@
           ("config" :> calculate_pre_market_time_of_config(market_open,
                                                            minutes_before))
    /\ UNCHANGED <<pc, market_open, minutes_before, status_vars, fetch_vars,
                   engine_vars>>
    /\ UNCHANGED service_vars

NextPreMarket ==
    \/ SchedulerCalculates
    \/ ConfigCalculates

SpecPreMarket == InitPreMarket /\ [][NextPreMarket]_vars

----------------------------------------------------------------------------
(* MarketTimingScheduler: start_scheduler, stop_scheduler and the loop     *)
(* threads of _run_scheduler.  threads[t] is where thread t stands:        *)
(* "started" before the test of the while loop, "run_pending" inside       *)
(* schedule.run_pending(), "sleep" inside time.sleep(60), "done" after     *)
(* the loop.  pc is where the caller of start and stop stands.             *)

\* The number of threads start_scheduler may start.
MaxThreads == 3

InitScheduler ==
    /\ EngineAtRest
    /\ NoFetch
    /\ NoTiming
    /\ report = <<>>
    /\ NoNotifier
    /\ NoHistory
    /\ NoScheduler
    /\ pc = "idle"

\* start_scheduler(): returns at once when is_running or when the Telegram
\* bot cannot be initialised; otherwise sets up the jobs, sets is_running
\* and starts a new thread.
StartScheduler(bot_initialized) ==
    /\ pc = "idle"
    /\ Len(threads) < MaxThreads
    /\ IF is_running \/ ~bot_initialized
       THEN UNCHANGED scheduler_vars
       ELSE /\ jobs' = TRUE
            /\ is_running' = TRUE
            /\ threads' = Append(threads, "started")
            /\ scheduler_thread' = Len(threads) + 1
            /\ UNCHANGED stopped
    /\ UNCHANGED <<pc, engine_vars, fetch_vars, status_vars, timing_vars,
                   report, notifier_vars, history_vars>>

\* while self.is_running: thread t enters the loop body or leaves the loop.
LoopTest(t) ==
    /\ t \in DOMAIN threads
    /\ threads[t] = "started"
    /\ threads' = [threads EXCEPT ![t] = IF is_running THEN "run_pending"
                                         ELSE "done"]
    /\ UNCHANGED <<is_running, scheduler_thread, jobs, stopped>>
    /\ UNCHANGED <<pc, engine_vars, fetch_vars, status_vars, timing_vars,
                   report, notifier_vars, history_vars>>

\* schedule.run_pending() of thread t has run, or raised and was caught:
\* the thread sleeps 60 seconds.
RunPending(t) ==
    /\ t \in DOMAIN threads
    /\ threads[t] = "run_pending"
    /\ threads' = [threads EXCEPT ![t] = "sleep"]
    /\ UNCHANGED <<is_running, scheduler_thread, jobs, stopped>>
    /\ UNCHANGED <<pc, engine_vars, fetch_vars, status_vars, timing_vars,
                   report, notifier_vars, history_vars>>

\* time.sleep(60) of thread t has ended: back to the test of the loop.
Wake(t) ==
    /\ t \in DOMAIN threads
    /\ threads[t] = "sleep"
    /\ threads' = [threads EXCEPT ![t] = "started"]
    /\ UNCHANGED <<is_running, scheduler_thread, jobs, stopped>>
    /\ UNCHANGED <<pc, engine_vars, fetch_vars, status_vars, timing_vars,
                   report, notifier_vars, history_vars>>

\* stop_scheduler() up to the join: is_running is cleared.
StopScheduler ==
    /\ pc = "idle"
    /\ is_running' = FALSE
    /\ pc' = "joining"
    /\ UNCHANGED <<scheduler_thread, threads, jobs, stopped>>
    /\ UNCHANGED <<engine_vars, fetch_vars, status_vars, timing_vars,
                   report, notifier_vars, history_vars>>

\* stop_scheduler() from the join on: scheduler_thread.join(timeout=5) has
\* nothing to wait for, or the thread has ended, or the five seconds have
\* passed while the thread sleeps its 60 seconds or runs its jobs; then the
\* schedule is cleared and stop_scheduler returns.
StopSchedulerReturns ==
    /\ pc = "joining"
    /\ IF scheduler_thread = 0 THEN TRUE
       ELSE threads[scheduler_thread] \in {"done", "sleep", "run_pending"}
    /\ jobs' = FALSE
    /\ stopped' = DOMAIN threads
    /\ pc' = "idle"
    /\ UNCHANGED <<is_running, scheduler_thread, threads>>
    /\ UNCHANGED <<engine_vars, fetch_vars, status_vars, timing_vars,
                   report, notifier_vars, history_vars>>

NextScheduler ==
    \/ \E bot_initialized \in BOOLEAN : StartScheduler(bot_initialized)
    \/ \E t \in 1 .. MaxThreads : LoopTest(t)
    \/ \E t \in 1 .. MaxThreads : RunPending(t)
    \/ \E t \in 1 .. MaxThreads : Wake(t)
    \/ StopScheduler
    \/ StopSchedulerReturns

SpecScheduler == InitScheduler /\ [][NextScheduler]_vars

----------------------------------------------------------------------------
(* CoffeePriceNotifier.run_daily_report.  A run scrapes, sends the report  *)
(* and returns True, or raises inside its try block and returns False from *)
(* the except branch.                                                      *)

\* The number of runs of a behaviour.
MaxRuns == 5

\* What happens inside the try block of one run: the import or the scraper
\* raises, the scraper brings no price, send_coffee_report returns False,
\* or it returns True.
RunOutcomes == {"scraper raised", "no data", "not sent", "sent"}

\* str(e) of the exception the except branch catches.
error_of(outcome) ==
    CASE outcome = "no data" -> "No price data could be scraped"
      [] outcome = "not sent" -> "Failed to send Telegram message"
      [] OTHER -> "scraper error"

InitNotifier ==
    /\ EngineAtRest
    /\ NoFetch
    /\ NoTiming
    /\ report = <<>>
    /\ NoScheduler
    /\ NoHistory
    /\ NoNotifier
    /\ pc = "idle"

\* A run whose success leaves consecutive_failures as it was.
RunDailyReportKeepingCount(outcome) ==
    /\ pc = "idle"
    /\ Len(runs) < MaxRuns
    /\ IF outcome = "sent"
       THEN /\ last_successful_run' = <<Len(runs) + 1>>
            /\ runs' = Append(runs, TRUE)
            /\ UNCHANGED <<consecutive_failures, error_notifications>>
       ELSE /\ consecutive_failures' = consecutive_failures + 1
            /\ error_notifications' =
                   IF consecutive_failures + 1 >= 2
                   THEN Append(error_notifications,
                               [error |-> error_of(outcome),
                                failures |-> consecutive_failures + 1])
                   ELSE error_notifications
            /\ runs' = Append(runs, FALSE)
            /\ UNCHANGED last_successful_run
    /\ UNCHANGED <<pc, engine_vars, fetch_vars, status_vars, timing_vars,
                   report, scheduler_vars, history_vars>>

\* One call of run_daily_report; the time of a run is its number.
RunDailyReport(outcome) ==
    /\ pc = "idle"
    /\ Len(runs) < MaxRuns
    /\ IF outcome = "sent"
       THEN /\ last_successful_run' = <<Len(runs) + 1>>
            /\ consecutive_failures' = 0
            /\ runs' = Append(runs, TRUE)
            /\ UNCHANGED error_notifications
       ELSE /\ consecutive_failures' = consecutive_failures + 1
            /\ error_notifications' =
                   IF consecutive_failures + 1 >= 2
                   THEN Append(error_notifications,
                               [error |-> error_of(outcome),
                                failures |-> consecutive_failures + 1])
                   ELSE error_notifications
            /\ runs' = Append(runs, FALSE)
            /\ UNCHANGED last_successful_run
    /\ UNCHANGED <<pc, engine_vars, fetch_vars, status_vars, timing_vars,
                   report, scheduler_vars, history_vars>>

NextNotifier == \E outcome \in RunOutcomes : RunDailyReport(outcome)

SpecNotifier == InitNotifier /\ [][NextNotifier]_vars

----------------------------------------------------------------------------
(* InvestingMarketScraper.scrape_coffee_prices and price_history.  An      *)
(* observation is carried by its price and, as its timestamp, the number   *)
(* of the call that parsed it.                                             *)

\* The number of calls of a behaviour.
MaxScrapes == 3

\* Keep only last 100 data points.
history_limit == 100

coffee_types == <<"robusta", "arabica">>

\* What one coffee type meets in one call: get_page_content raises,
\* get_page_content returns None, parse_price_data returns None, or
\* parse_price_data returns the price data.
ScrapeOutcomes == {"fetch raised", "not fetched", "not parsed", "parsed"}

\* The current_price parse_price_data finds for a coffee type.
current_price == [robusta |-> 4300, arabica |-> 250]

Observation(coffee_type, timestamp) ==
    [price |-> current_price[coffee_type], timestamp |-> timestamp]

\* The observations of the calls 1 .. n.
ObservationsUpTo(coffee_type, n) ==
    [k \in 1 .. n |-> Observation(coffee_type, k)]

\* The append that keeps the first 100 entries.
append_keeping_first(history, entry) ==
    LET appended == Append(history, entry)
    IN  IF Len(appended) > history_limit
        THEN SubSeq(appended, 1, history_limit)
        ELSE appended

\* price_history[coffee_type].append(entry), then the cut to the last 100.
append_to_history(history, entry) ==
    LET appended == Append(history, entry)
    IN  IF Len(appended) > history_limit
        THEN SubSeq(appended, Len(appended) - history_limit + 1, Len(appended))
        ELSE appended

\* The numbers of calls a behaviour starts after.
CallsBefore == {0, history_limit - 1, history_limit}

\* The scraper as constructed, or after calls in which a coffee type was
\* parsed every time or never.
InitHistory ==
    /\ EngineAtRest
    /\ NoFetch
    /\ NoTiming
    /\ report = <<>>
    /\ NoScheduler
    /\ NoNotifier
    /\ pc = "idle"
    /\ scrapes \in CallsBefore
    /\ scraped \in [{"robusta", "arabica"} ->
                       {<<>>, ObservationsUpTo("robusta", scrapes),
                        ObservationsUpTo("arabica", scrapes)}]
    /\ \A c \in {"robusta", "arabica"} :
           scraped[c] \in {<<>>, ObservationsUpTo(c, scrapes)}
    /\ price_history = scraped

\* A call gets to the coffee types before the first whose fetch raises;
\* a coffee type it gets to is parsed or not.
Parsed(outcome, c) ==
    \E k \in DOMAIN coffee_types :
        /\ coffee_types[k] = c
        /\ \A j \in 1 .. k : outcome[coffee_types[j]] # "fetch raised"
        /\ outcome[c] = "parsed"

\* One call of scrape_coffee_prices; the calls of a behaviour are the first
\* ones or those around the 100th.
ScrapeCoffeePrices(outcome) ==
    /\ pc = "idle"
    /\ \/ scrapes < MaxScrapes
       \/ /\ scrapes >= history_limit - 1
          /\ scrapes < history_limit + MaxScrapes
    /\ scrapes' = scrapes + 1
    /\ price_history' =
           [c \in DOMAIN price_history |->
               IF Parsed(outcome, c)
               THEN append_to_history(price_history[c],
                                      Observation(c, scrapes + 1))
               ELSE price_history[c]]
    /\ scraped' =
           [c \in DOMAIN scraped |->
               IF Parsed(outcome, c)
               THEN Append(scraped[c], Observation(c, scrapes + 1))
               ELSE scraped[c]]
    /\ UNCHANGED <<pc, engine_vars, fetch_vars, status_vars, timing_vars,
                   report, scheduler_vars, notifier_vars>>

NextHistory ==
    \E outcome \in [{"robusta", "arabica"} -> ScrapeOutcomes] :
        ScrapeCoffeePrices(outcome)

SpecHistory == InitHistory /\ [][NextHistory]_vars

----------------------------------------------------------------------------
(* Claims.                                                                 *)

\* lo <= p <= hi over the rationals.
Within(lo, p, hi) == RLeq(lo, RInt(p)) /\ RLeq(RInt(p), hi)

Scaled(f, x) == RMul(f, RInt(x))

\* C1: for every configured market with valid_range (min, max) and every
\* price, validate_price returns 1.0 when min <= price <= max, otherwise 0.7
\* when 0.8*min <= price <= 1.2*max, otherwise 0.4 when 0.5*min <= price <=
\* 1.5*max, otherwise 0.1; every band limit is inclusive.
C1_ValidateBands ==
    (pc = "return" /\ market_type \in DOMAIN market_info) =>
        LET lo == market_info[market_type].min_price
            hi == market_info[market_type].max_price
        IN  /\ Within(RInt(lo), price, RInt(hi)) => score = R(1, 1)
            /\ (~Within(RInt(lo), price, RInt(hi))
                /\ Within(Scaled(R(4, 5), lo), price, Scaled(R(6, 5), hi)))
                   => score = R(7, 10)
            /\ (~Within(Scaled(R(4, 5), lo), price, Scaled(R(6, 5), hi))
                /\ Within(Scaled(R(1, 2), lo), price, Scaled(R(3, 2), hi)))
                   => score = R(4, 10)
            /\ ~Within(Scaled(R(1, 2), lo), price, Scaled(R(3, 2), hi))
                   => score = R(1, 10)
            /\ (price = lo \/ price = hi) => score = R(1, 1)

\* C1 witness: validate_price scored a price of exactly 0.8*min as 0.7.
C1_Witness ==
    /\ pc = "return"
    /\ market_type = "robusta_london"
    /\ price * 10 = market_info[market_type].min_price * 8
    /\ score = R(7, 10)

\* The points of market m in the list handed over, in the order of the list.
InputOf(m) == SelectSeq(all_price_points, LAMBDA p : p.market_type = m)

\* The points of s whose confidence is c, in the order of s.
WithConfidence(s, c) == SelectSeq(s, LAMBDA p : p.confidence = c)

\* all_prices of every market runs from the highest confidence to the lowest.
ConfidenceDescending ==
    \A m \in DOMAIN comparisons :
        LET a == comparisons[m].all_prices
        IN  \A i, j \in 1..Len(a) :
                i < j => RLeq(a[j].confidence, a[i].confidence)

\* C2 (as stated): in every PriceComparison, all_prices is ordered by
\* confidence descending, and among points of equal confidence the point
\* with the earliest timestamp comes first, whatever the order of the input.
C2_EarliestFirst ==
    pc = "compared" =>
        /\ ConfidenceDescending
        /\ \A m \in DOMAIN comparisons :
               LET a == comparisons[m].all_prices
               IN  \A i, j \in 1..Len(a) :
                       (i < j /\ a[i].confidence = a[j].confidence)
                           => a[i].timestamp <= a[j].timestamp

\* C2 (amended): in every PriceComparison, all_prices is ordered by
\* confidence descending, and the points of equal confidence stand in the
\* order they have in the input list; their timestamps are not compared.
C2_InputOrderAmongEquals ==
    pc = "compared" =>
        /\ ConfidenceDescending
        /\ \A m \in DOMAIN comparisons :
               LET a == comparisons[m].all_prices
               IN  \A k \in 1..Len(a) :
                       WithConfidence(a, a[k].confidence)
                           = WithConfidence(InputOf(m), a[k].confidence)

\* C2 witness: two points of one market and of equal confidence, the later
\* one first in the input, and all_prices lists the later one first.
C2_Witness ==
    /\ pc = "compared"
    /\ \E m \in DOMAIN comparisons :
           LET a == comparisons[m].all_prices
               g == InputOf(m)
           IN  /\ Len(g) >= 2
               /\ g[1].confidence = g[2].confidence
               /\ g[1].timestamp > g[2].timestamp
               /\ \E i \in 1..Len(a) : a[i] = g[1] /\ a[i + 1] = g[2]

\* The lists that hold the points of s in another order.
Reorderings(s) ==
    {[k \in 1..Len(s) |-> s[f[k]]] : f \in Permutations(1..Len(s))}

\* How often p occurs in s.
Count(s, p) == Len(SelectSeq(s, LAMBDA q : q = p))

SamePoints(s, t) ==
    /\ Len(s) = Len(t)
    /\ \A k \in 1..Len(s) : Count(s, s[k]) = Count(t, s[k])

\* Two PriceComparisons agree in everything but the order of all_prices
\* and the primary price.
SameStatistics(x, y) ==
    /\ x.market_type = y.market_type
    /\ x.price_range = y.price_range
    /\ x.average_price = y.average_price
    /\ x.median_price = y.median_price
    /\ x.price_variance = y.price_variance
    /\ x.reliability_score = y.reliability_score
    /\ x.recommendation = y.recommendation
    /\ SamePoints(x.all_prices, y.all_prices)

\* No two different points of s have the same confidence.
NoTie(s) ==
    \A i, j \in 1..Len(s) :
        s[i].confidence = s[j].confidence => s[i] = s[j]

\* C3 (as stated): for any two input lists holding the same points in any
\* order, compare_prices returns the same mapping: the same primary_price,
\* all_prices order, statistics, reliability_score and recommendation.
C3_OrderIndependent ==
    pc = "compared" =>
        \A l \in Reorderings(all_price_points) : compare_prices(l) = comparisons

\* C3 (amended): for any two input lists holding the same points in any
\* order, compare_prices returns mappings with the same markets and, for
\* every market, the same price_range, average, median, variance,
\* reliability_score and recommendation and the same points in all_prices;
\* primary_price and the order of all_prices are the same as well when no
\* two different points of the market have equal confidence.
C3_OrderIndependentUpToTies ==
    pc = "compared" =>
        \A l \in Reorderings(all_price_points) :
            LET other == compare_prices(l)
            IN  /\ DOMAIN other = DOMAIN comparisons
                /\ \A m \in DOMAIN comparisons :
                       /\ SameStatistics(other[m], comparisons[m])
                       /\ NoTie(comparisons[m].all_prices)
                              => other[m] = comparisons[m]

\* C3 witness: a market of two points of different prices, the less
\* confident one first in the input, and the input in another order gives
\* the mapping that was returned.
C3_Witness ==
    /\ pc = "compared"
    /\ \E m \in DOMAIN comparisons :
           LET a == comparisons[m].all_prices
               g == InputOf(m)
           IN  /\ Len(g) = 2
               /\ RLt(g[1].confidence, g[2].confidence)
               /\ g[1].price # g[2].price
               /\ a = <<g[2], g[1]>>
               /\ \E l \in Reorderings(all_price_points) :
                      l # all_price_points /\ compare_prices(l) = comparisons

\* C4: for every market of the output, primary_price is the first element
\* of all_prices, is one of the input points of that market, and no point of
\* the market has a strictly greater confidence.
C4_PrimaryIsMostConfident ==
    pc = "compared" =>
        \A m \in DOMAIN comparisons :
            LET c == comparisons[m]
            IN  /\ c.primary_price = c.all_prices[1]
                /\ \E k \in 1..Len(all_price_points) :
                       /\ all_price_points[k] = c.primary_price
                       /\ all_price_points[k].market_type = m
                /\ \A k \in 1..Len(all_price_points) :
                       all_price_points[k].market_type = m =>
                           RLeq(all_price_points[k].confidence,
                                c.primary_price.confidence)

\* C4 witness: the primary price of a market is neither its highest nor its
\* lowest price and stands last in the input.
C4_Witness ==
    /\ pc = "compared"
    /\ \E m \in DOMAIN comparisons :
           LET c == comparisons[m]
               g == InputOf(m)
           IN  /\ Len(g) = 3
               /\ c.primary_price = g[3]
               /\ c.price_range[1] < c.primary_price.price
               /\ c.primary_price.price < c.price_range[2]

\* The prices of the points of a, added up, and their squares added up.
RECURSIVE TotalPrice(_)
TotalPrice(a) == IF a = <<>> THEN 0 ELSE TotalPrice(Tail(a)) + Head(a).price

RECURSIVE TotalSquare(_)
TotalSquare(a) ==
    IF a = <<>> THEN 0 ELSE TotalSquare(Tail(a)) + Head(a).price * Head(a).price

RECURSIVE TotalConfidence(_)
TotalConfidence(a) ==
    IF a = <<>> THEN RInt(0) ELSE RAdd(TotalConfidence(Tail(a)), Head(a).confidence)

PriceSet(a) == {a[k].price : k \in 1..Len(a)}

AtMost(a, x) == Cardinality({k \in 1..Len(a) : a[k].price <= x})

AtLeast(a, x) == Cardinality({k \in 1..Len(a) : a[k].price >= x})

\* The lower and the upper of the two middle values (one value when the
\* count is odd): the least price with half of the prices at or below it,
\* and the greatest price with half of the prices at or above it.
LowerMiddle(a) ==
    CHOOSE x \in PriceSet(a) :
        /\ 2 * AtMost(a, x) >= Len(a)
        /\ \A y \in PriceSet(a) : 2 * AtMost(a, y) >= Len(a) => x <= y

UpperMiddle(a) ==
    CHOOSE x \in PriceSet(a) :
        /\ 2 * AtLeast(a, x) >= Len(a)
        /\ \A y \in PriceSet(a) : 2 * AtLeast(a, y) >= Len(a) => y <= x

\* C5: for every market group with two or more points, price_range is
\* (min, max) of the prices of all_prices, average_price their arithmetic
\* mean, median_price their median (the mean of the two middle values for an
\* even count) and price_variance their population variance (divided by N).
C5_Statistics ==
    pc = "compared" =>
        \A m \in DOMAIN comparisons :
            LET c == comparisons[m]
                a == c.all_prices
                n == Len(a)
            IN  n >= 2 =>
                    /\ c.price_range[1] \in PriceSet(a)
                    /\ c.price_range[2] \in PriceSet(a)
                    /\ \A x \in PriceSet(a) :
                           c.price_range[1] <= x /\ x <= c.price_range[2]
                    /\ RMul(c.average_price, RInt(n)) = RInt(TotalPrice(a))
                    /\ RMul(c.median_price, RInt(2))
                           = RInt(LowerMiddle(a) + UpperMiddle(a))
                    /\ RMul(c.price_variance, RInt(n * n))
                           = RInt(n * TotalSquare(a) - TotalPrice(a) * TotalPrice(a))

\* C5 witness: a market of two points of different prices, whose median is
\* the mean of the two and whose variance is a quarter of the squared
\* difference.
C5_Witness ==
    /\ pc = "compared"
    /\ \E m \in DOMAIN comparisons :
           LET c == comparisons[m]
               a == c.all_prices
           IN  /\ Len(a) = 2
               /\ a[1].price = 370 /\ a[2].price = 430
               /\ c.median_price = RInt(400)
               /\ c.price_variance = RInt(900)

\* C6: for every market group with two or more points and a positive
\* average, reliability_score is (mean of the confidences + consistency) / 2
\* with consistency = 1 - price_variance / average_price^2.
C6_Reliability ==
    pc = "compared" =>
        \A m \in DOMAIN comparisons :
            LET c == comparisons[m]
                a == c.all_prices
                n == Len(a)
            IN  (n >= 2 /\ RLt(RInt(0), c.average_price)) =>
                    RSub(RMul(RInt(2 * n), c.reliability_score), TotalConfidence(a))
                        = RMul(RInt(n),
                               RSub(RInt(1),
                                    RDiv(c.price_variance,
                                         RMul(c.average_price, c.average_price))))

\* C6 witness: a market of three points with a price variance above zero
\* and confidences that differ.
C6_Witness ==
    /\ pc = "compared"
    /\ \E m \in DOMAIN comparisons :
           LET c == comparisons[m]
               a == c.all_prices
           IN  /\ Len(a) = 3
               /\ RLt(RInt(0), c.price_variance)
               /\ a[1].confidence # a[3].confidence
               /\ RLt(RInt(0), c.reliability_score)

\* C7: for every group of well-formed points (positive prices, confidences
\* in [0,1]) of any size, reliability_score lies in [0.0, 1.0].
C7_ReliabilityInUnitInterval ==
    pc = "compared" =>
        \A m \in DOMAIN comparisons :
            /\ RLeq(RInt(0), comparisons[m].reliability_score)
            /\ RLeq(comparisons[m].reliability_score, RInt(1))

\* C8: for every market group with N >= 2 points and a positive average,
\* with spread = (max - min) / average: the recommendation is "Consistent
\* across N sources" when spread < 0.05, "Reasonable variance across
\* sources" when 0.05 <= spread < 0.15 and "High variance - verify manually"
\* when spread >= 0.15; a spread of exactly 0.05 or 0.15 is in the higher
\* class.
C8_Recommendation ==
    pc = "compared" =>
        \A m \in DOMAIN comparisons :
            LET c == comparisons[m]
                n == Len(c.all_prices)
                width == RInt(c.price_range[2] - c.price_range[1])
                fivePercent == RMul(R(5, 100), c.average_price)
                fifteenPercent == RMul(R(15, 100), c.average_price)
            IN  (n >= 2 /\ RLt(RInt(0), c.average_price)) =>
                    /\ RLt(width, fivePercent) =>
                           c.recommendation
                               = "Consistent across " \o ToString(n) \o " sources"
                    /\ (RLeq(fivePercent, width) /\ RLt(width, fifteenPercent)) =>
                           c.recommendation = "Reasonable variance across sources"
                    /\ RLeq(fifteenPercent, width) =>
                           c.recommendation = "High variance - verify manually"

\* C8 witness: a market whose spread is exactly 0.05, found of reasonable
\* variance.
C8_Witness ==
    /\ pc = "compared"
    /\ \E m \in DOMAIN comparisons :
           LET c == comparisons[m]
           IN  /\ Len(c.all_prices) >= 2
               /\ RInt(20 * (c.price_range[2] - c.price_range[1])) = c.average_price
               /\ c.recommendation = "Reasonable variance across sources"

\* C9: for every market whose group holds exactly one point P, primary_price
\* is P, price_range is (P.price, P.price), average_price and median_price
\* are P.price, price_variance is 0, reliability_score is P.confidence and
\* the recommendation is "Single source: <P.source>".
C9_SinglePoint ==
    pc = "compared" =>
        \A m \in DOMAIN comparisons :
            Len(InputOf(m)) = 1 =>
                LET c == comparisons[m]
                    P == InputOf(m)[1]
                IN  /\ c.primary_price = P
                    /\ c.all_prices = <<P>>
                    /\ c.price_range = <<P.price, P.price>>
                    /\ c.average_price = RInt(P.price)
                    /\ c.median_price = RInt(P.price)
                    /\ c.price_variance = RInt(0)
                    /\ c.reliability_score = P.confidence
                    /\ c.recommendation = "Single source: " \o P.source

\* C9 witness: a market with the single point of a source, of confidence
\* 0.1, beside a market of two points.
C9_Witness ==
    /\ pc = "compared"
    /\ \E m, o \in DOMAIN comparisons :
           /\ Len(InputOf(m)) = 1
           /\ Len(InputOf(o)) = 2
           /\ comparisons[m].reliability_score = R(1, 10)
           /\ comparisons[m].recommendation = "Single source: market_estimate"

\* The recommendation starts with "Consistent".
StartsConsistent(text) ==
    \E n \in 0..Len(all_price_points) :
        text = "Consistent across " \o ToString(n) \o " sources"

\* C10: for every market group with N > 1 points that all share the price
\* V, price_variance is 0, average_price and median_price are V and the
\* recommendation starts with "Consistent".
C10_IdenticalPrices ==
    pc = "compared" =>
        \A m \in DOMAIN comparisons :
            LET c == comparisons[m]
                g == InputOf(m)
            IN  (Len(g) > 1 /\ \A k \in 1..Len(g) : g[k].price = g[1].price) =>
                    /\ c.price_variance = RInt(0)
                    /\ c.average_price = RInt(g[1].price)
                    /\ c.median_price = RInt(g[1].price)
                    /\ StartsConsistent(c.recommendation)

\* C10 witness: three points of one market, of different sources and
\* confidences and of one price.
C10_Witness ==
    /\ pc = "compared"
    /\ \E m \in DOMAIN comparisons :
           LET g == InputOf(m)
           IN  /\ Len(g) = 3
               /\ g[1].price = g[2].price /\ g[2].price = g[3].price
               /\ g[1].source # g[2].source
               /\ g[1].confidence # g[3].confidence
               /\ comparisons[m].recommendation = "Consistent across 3 sources"

\* C11: for every PriceComparison returned by compare_prices,
\* price_range[0] <= average_price <= price_range[1] and price_range[0] <=
\* median_price <= price_range[1], and the price of primary_price lies in
\* price_range as well.
C11_WithinRange ==
    pc = "compared" =>
        \A m \in DOMAIN comparisons :
            LET c == comparisons[m]
                lo == RInt(c.price_range[1])
                hi == RInt(c.price_range[2])
            IN  /\ RLeq(lo, c.average_price) /\ RLeq(c.average_price, hi)
                /\ RLeq(lo, c.median_price) /\ RLeq(c.median_price, hi)
                /\ Within(lo, c.primary_price.price, hi)

\* C11 witness: a market of three points whose average and median differ and
\* lie strictly between the lowest and the highest price, the primary price
\* being the highest.
C11_Witness ==
    /\ pc = "compared"
    /\ \E m \in DOMAIN comparisons :
           LET c == comparisons[m]
           IN  /\ Len(c.all_prices) = 3
               /\ RLt(RInt(c.price_range[1]), c.average_price)
               /\ RLt(c.average_price, c.median_price)
               /\ RLt(c.median_price, RInt(c.price_range[2]))
               /\ c.primary_price.price = c.price_range[2]

\* C12: compare_prices partitions its input by market_type: the keys of the
\* returned mapping are exactly the market_type values present in the input
\* (a configured market with no points is absent), and all_prices of each
\* market holds exactly the input points of that market_type, each as often
\* as the input holds it, none dropped and none of another market.
C12_Partition ==
    pc = "compared" =>
        /\ DOMAIN comparisons
               = {all_price_points[k].market_type : k \in 1..Len(all_price_points)}
        /\ \A m \in DOMAIN comparisons :
               LET a == comparisons[m].all_prices
               IN  /\ comparisons[m].market_type = m
                   /\ Len(a) = Cardinality({k \in 1..Len(all_price_points) :
                                               all_price_points[k].market_type = m})
                   /\ \A k \in 1..Len(a) : a[k].market_type = m
                   /\ \A k \in 1..Len(all_price_points) :
                          LET p == all_price_points[k]
                          IN  Count(a, p) = IF p.market_type = m
                                            THEN Count(all_price_points, p)
                                            ELSE 0

\* C12 witness: a list that holds one point twice and a point of another
\* market between the two; the mapping has the two markets, the one with the
\* point twice, and has no entry for a configured market without points.
C12_Witness ==
    /\ pc = "compared"
    /\ Len(all_price_points) = 3
    /\ all_price_points[1] = all_price_points[3]
    /\ all_price_points[2].market_type # all_price_points[1].market_type
    /\ DOMAIN comparisons = Markets
    /\ comparisons[all_price_points[1].market_type].all_prices
           = <<all_price_points[1], all_price_points[3]>>
    /\ "robusta_vietnam" \in DOMAIN market_info \ DOMAIN comparisons

\* C13: compare_prices called with an empty list returns an empty mapping
\* and raises no error.
C13_EmptyInput ==
    (pc = "compared" /\ all_price_points = <<>>) =>
        /\ DOMAIN comparisons = {}
        /\ comparisons = NoComparisons

\* C13 witness: compare_prices has returned from a call with the empty list.
C13_Witness ==
    /\ pc = "compared"
    /\ all_price_points = <<>>
    /\ comparisons = compare_prices(<<>>)

\* C14: for every market key that is not in market_info and for every
\* price, validate_price returns the neutral score 0.5 and raises no error.
C14_UnknownMarket ==
    (pc = "return" /\ market_type \notin DOMAIN market_info) => score = R(5, 10)

\* C14 witness: validate_price scored a price that is plausible for Robusta
\* London, under a key that differs from the configured one in its letters'
\* case, as 0.5.
C14_Witness ==
    /\ pc = "return"
    /\ market_type = "ROBUSTA_LONDON"
    /\ price = market_info["robusta_london"].max_price
    /\ score = R(1, 2)

\* The values validate_price returns.
Scores == {R(1, 10), R(4, 10), R(5, 10), R(7, 10), R(10, 10)}

\* C15: validate_price is a total, deterministic function: for every market
\* key and every price, also one far outside the plausible range, a call
\* returns, without raising, one value of {0.1, 0.4, 0.5, 0.7, 1.0}, all
\* within [0,1], and a second call with the same price and market key
\* returns the value of the first.
C15_TotalDeterministic ==
    /\ [](pc = "call" => ENABLED ValidatePrice)
    /\ [](pc # "call" =>
              /\ score \in Scores
              /\ RLeq(RInt(0), score) /\ RLeq(score, RInt(1)))
    /\ [][pc = "return" => (pc' = "return_again" /\ score' = score)]_vars

\* C15 witness: the second call with a price far above the range of a
\* configured market has returned 0.1, as the first.
C15_Witness ==
    /\ pc = "return_again"
    /\ price \in FarPrices
    /\ price > market_info["arabica_newyork"].max_price
    /\ market_type = "arabica_newyork"
    /\ score = validate_price(price, market_type)
    /\ score = R(1, 10)

\* C16: for a group of two or more points whose average price is 0,
\* compare_prices takes the price-consistency term as 0, so that
\* reliability_score is half the mean of the confidences, and the spread as
\* 0, so that the recommendation is the one of a spread below 0.05; it
\* raises no division error and the market has its PriceComparison.
C16_DegenerateAverage ==
    pc = "compared" =>
        \A m \in {all_price_points[k].market_type : k \in 1..Len(all_price_points)} :
            LET g == InputOf(m)
                n == Len(g)
            IN  (n >= 2 /\ TotalPrice(g) = 0) =>
                    /\ m \in DOMAIN comparisons
                    /\ comparisons[m].average_price = RInt(0)
                    /\ RMul(RInt(2 * n), comparisons[m].reliability_score)
                           = TotalConfidence(g)
                    /\ comparisons[m].recommendation
                           = "Consistent across " \o ToString(n) \o " sources"

\* C16 witness: two points of the prices -10 and 10, whose average is 0 and
\* whose variance is not, with their PriceComparison.
C16_Witness ==
    /\ pc = "compared"
    /\ Len(all_price_points) = 2
    /\ all_price_points[1].price = -10
    /\ all_price_points[2].price = 10
    /\ all_price_points[1].confidence # all_price_points[2].confidence
    /\ \E m \in DOMAIN comparisons :
           /\ comparisons[m].average_price = RInt(0)
           /\ comparisons[m].price_variance = RInt(100)
           /\ comparisons[m].reliability_score = R(11, 40)
           /\ comparisons[m].recommendation = "Consistent across 2 sources"

\* The list of points is the one handed to compare_prices.
ListHandedOver == pc \in {"collect", "compared"}

\* A point made by get_giacaphe_estimates, get_webgia_fallback or
\* get_market_estimates.
IsEstimate(p) ==
    p.source \in {"giacaphe.com (estimated)", "webgia.com (fallback)", "market_estimate"}

\* A point of the pattern matching of scrape_webgia_vietnam.
IsPatternMatch(p) ==
    /\ p.source = "webgia.com/vietnam"
    /\ p.raw_data = "Pattern match: " \o ToString(p.price)

InUnitInterval(x) == RLeq(RInt(0), x) /\ RLeq(x, RInt(1))

\* C17 (as stated): every PricePoint that scrape_all_prices passes to
\* compare_prices carries a confidence in [0.0, 1.0] that is the value
\* validate_price produces for the point's own price and market_type, the
\* estimate and fallback points and the pattern-match points included.
C17_ValidatedConfidence ==
    ListHandedOver =>
        \A k \in 1..Len(all_price_points) :
            LET p == all_price_points[k]
            IN  /\ InUnitInterval(p.confidence)
                /\ p.confidence = validate_price(p.price, p.market_type)

\* C17 (amended): every PricePoint that scrape_all_prices passes to
\* compare_prices carries a confidence in [0.0, 1.0]; for a point an
\* extractor read from a page it is the value validate_price produces for
\* the point's own price and market_type, for a pattern-match point of the
\* WebGia Vietnam extractor it is 0.8 times that value, and for an estimate
\* or fallback point it is the fixed value 0.4.
C17_ConfidenceByOrigin ==
    ListHandedOver =>
        \A k \in 1..Len(all_price_points) :
            LET p == all_price_points[k]
                validated == validate_price(p.price, p.market_type)
            IN  /\ InUnitInterval(p.confidence)
                /\ p.confidence =
                       IF IsEstimate(p) THEN R(4, 10)
                       ELSE IF IsPatternMatch(p) THEN RMul(R(8, 10), validated)
                       ELSE validated

\* C17 witness: a cycle handed over a point read from a page with the
\* validated confidence 0.1, an estimate of confidence 0.4 whose price
\* validate_price scores 1.0, and a pattern-match point of confidence 0.8.
C17_Witness ==
    /\ pc = "compared"
    /\ \E i, j, k \in 1..Len(all_price_points) :
           LET p == all_price_points[i]
               q == all_price_points[j]
               r == all_price_points[k]
           IN  /\ ~IsEstimate(p) /\ ~IsPatternMatch(p)
               /\ p.confidence = R(1, 10)
               /\ IsEstimate(q)
               /\ q.confidence = R(4, 10)
               /\ validate_price(q.price, q.market_type) = R(1, 1)
               /\ IsPatternMatch(r)
               /\ r.confidence = R(8, 10)

\* C18: compare_prices and validate_price change nothing but their return
\* value: over any sequence of calls the state of the scraper (price_cache;
\* sources and market_info are fixed) stays as it is, a call of
\* compare_prices leaves the list of the caller with the same points in the
\* same order and with every field as it was and returns the mapping that
\* its argument alone determines, whatever an earlier call returned, and a
\* call of validate_price leaves the list and the mapping as they are.
C18_NothingButReturnValue ==
    [][/\ price_cache' = price_cache
       /\ compare_calls' # compare_calls =>
              /\ all_price_points' = all_price_points
              /\ comparisons' = compare_prices(all_price_points')
       /\ <<price, market_type, score>>' # <<price, market_type, score>> =>
              /\ all_price_points' = all_price_points
              /\ comparisons' = comparisons
              /\ score' = validate_price(price', market_type')]_vars

\* C18 witness: the second call of compare_prices has returned; its list
\* holds two points of one market, the less confident one first as before
\* the call, all_prices holds them the other way round, and validate_price
\* has been called with the price and the market of the first point.
C18_Witness ==
    /\ pc = "compared"
    /\ compare_calls = 2
    /\ Len(all_price_points) = 2
    /\ RLt(all_price_points[1].confidence, all_price_points[2].confidence)
    /\ DOMAIN comparisons = {all_price_points[1].market_type}
    /\ comparisons[all_price_points[1].market_type].all_prices
           = <<all_price_points[2], all_price_points[1]>>
    /\ price = all_price_points[1].price
    /\ market_type = all_price_points[1].market_type
    /\ score = R(1, 1)

\* C19: in every PriceComparison of a scrape cycle all points of all_prices
\* carry one unit, for a market configured in market_info the unit
\* configured for it, and no extractor puts a point on the list whose unit
\* differs from the unit of its market_type; prices of different units are
\* never averaged or compared together.
C19_OneUnitPerMarket ==
    /\ \A k \in 1..Len(all_price_points) :
           LET p == all_price_points[k]
           IN  p.market_type \in DOMAIN market_info =>
                   p.unit = market_unit[p.market_type]
    /\ pc = "compared" =>
           \A m \in DOMAIN comparisons :
               LET a == comparisons[m].all_prices
               IN  /\ \A i, j \in 1..Len(a) : a[i].unit = a[j].unit
                   /\ m \in DOMAIN market_info =>
                          \A i \in 1..Len(a) : a[i].unit = market_unit[m]

\* C19 witness: a cycle compared three markets of three units, one of
\* them with points of two sources and another with two points of one
\* source.
C19_Witness ==
    /\ pc = "compared"
    /\ \E m, n, o \in DOMAIN comparisons :
           LET a == comparisons[m].all_prices
               b == comparisons[n].all_prices
               c == comparisons[o].all_prices
           IN  /\ Len(a) = 2
               /\ a[1].source # a[2].source
               /\ a[1].unit = "USD/tonne" /\ a[2].unit = "USD/tonne"
               /\ Len(b) = 2
               /\ b[1].source = b[2].source
               /\ b[1].unit = "VND/kg" /\ b[2].unit = "VND/kg"
               /\ c[1].unit = "cents/lb"

\* The names in a list of names.
Names(list) == {list[k] : k \in 1..Len(list)}

\* C20: within one cycle of scrape_all_prices, compare_prices is invoked
\* exactly once, and only after the loop has taken every configured source,
\* each fetched and extracted or recorded as failed; no source is taken
\* after the engine has been invoked.
C20_ComparedOnceAfterSources ==
    /\ [](compare_calls = IF pc \in {"compared", "returned"} THEN 1 ELSE 0)
    /\ [](compare_calls >= 1 =>
              /\ source_index = Len(sources)
              /\ \A k \in 1..Len(sources) :
                     \/ sources[k].name \in Names(sources_used)
                     \/ sources[k].name \in Names(failed_sources)
                     \/ sources[k].backup)
    /\ [][compare_calls >= 1 =>
              UNCHANGED <<source_index, sources_used, failed_sources,
                          all_price_points>>]_vars
    /\ [][compare_calls' # compare_calls =>
              (pc = "collect" /\ source_index = Len(sources))]_vars

\* C20 witness: the cycle has invoked compare_prices once, after five turns
\* of the loop of which one gave points, one failed and one, of a backup
\* source, gave no points and was not recorded.
C20_Witness ==
    /\ pc = "compared"
    /\ compare_calls = 1
    /\ source_index = Len(sources)
    /\ "webgia_international" \in Names(failed_sources)
    /\ "giacaphe_vietnam" \in Names(sources_used)
    /\ "investing_robusta" \notin Names(sources_used) \cup Names(failed_sources)
    /\ DOMAIN comparisons # {}

\* C21: in scrape_all_prices no fetch or extraction failure of a source
\* reaches compare_prices or the caller: the turn of a source that is
\* recorded as failed adds no point to the list, records the name of that
\* source, and goes on to the next source of the configured list, so every
\* later source is still taken and compare_prices is invoked all the same.
C21_FailureIsolated ==
    /\ [][failed_sources' # failed_sources =>
              /\ pc = "scrape" /\ pc' = "scrape"
              /\ source_index < Len(sources)
              /\ failed_sources'
                     = Append(failed_sources, sources[source_index + 1].name)
              /\ all_price_points' = all_price_points
              /\ sources_used' = sources_used
              /\ source_index' = source_index + 1]_vars
    /\ []((pc = "scrape" /\ source_index < Len(sources)) =>
              ENABLED (SourceFailed \/ \E html \in Pages(sources[source_index + 1]) :
                                           SourceScraped(html)))
    /\ [](pc = "scrape" /\ source_index = Len(sources) => ENABLED FinishCollection)
    /\ [](pc = "compared" => source_index = Len(sources))

\* C21 witness: the first and the third source failed, the second and the
\* fourth source, taken after a failure, gave the points of the list, and
\* compare_prices returned their markets.
C21_Witness ==
    /\ pc = "compared"
    /\ failed_sources = <<"webgia_international", "investing_arabica">>
    /\ sources_used = <<"investing_robusta", "giacaphe_vietnam">>
    /\ \A k \in 1..Len(all_price_points) :
           all_price_points[k].source \in {"investing.com/robusta", "giacaphe.com"}
    /\ "robusta_london" \in DOMAIN comparisons


\* C22: get_page_content of EnhancedMultiSourceScraper issues at most
\* max_retries requests, ends, never raises, and returns either None or a
\* response text of more than 300 characters; the first response that
\* passes the length check is returned without a further request.
C22_FetchReturns ==
    /\ [](requests_sent <= max_retries)
    /\ [](pc \in {"fetch", "returned"})
    /\ [](pc = "fetch" => ENABLED NextFetch)
    /\ [](pc = "fetch" => /\ result = NoText
                          /\ attempt = requests_sent
                          /\ (response # NoText => len(response[1]) <= 300))
    /\ [](pc = "returned" =>
              \/ result = NoText /\ requests_sent = max_retries
              \/ /\ result # NoText
                 /\ len(result[1]) > 300
                 /\ result = response
                 /\ requests_sent = attempt + 1)
    /\ [][pc = "returned" => UNCHANGED vars]_vars
    /\ [][pc = "fetch" =>
              \/ attempt' = attempt + 1 /\ pc' = "fetch"
              \/ pc' = "returned"]_vars

\* C22 witness: the first request raised, the second was answered with a
\* text of 301 characters, which was returned with a third attempt left.
C22_Witness ==
    /\ pc = "returned"
    /\ max_retries = 3
    /\ requests_sent = 2
    /\ delays = 1
    /\ result = <<Text(301, "coffee")>>


\* C25: get_page_content of InvestingMarketScraper issues at most
\* max_retries requests, with a backoff delay before each attempt after the
\* first, ends, and returns the first accepted page or None; it never
\* propagates an exception to its caller, in particular not on the second
\* and later attempts.
C25_NeverPropagates ==
    /\ pc \in {"fetch", "returned"}
    /\ requests_sent <= max_retries
    /\ (requests_sent > 0 => delays = requests_sent - 1)
    /\ (pc = "returned" /\ result # NoText => result = response)

\* C26: get_page_content of InvestingMarketScraper never returns a page
\* that is shorter than 5000 characters or that holds, in any letter case,
\* one of its blocking indicators.
C26_NoBlockedPageReturned ==
    (pc = "returned" /\ result # NoText) =>
        /\ len(result[1]) >= 5000
        /\ \A k \in DOMAIN blocking_indicators :
               lower(blocking_indicators[k]) # lower(result[1].phrase)


\* The trading hours the status of the state was computed from: those of
\* the configured market after get_market_status_now, those of the market
\* of the scraper after get_market_status.
HoursAsked ==
    IF pc = "status_now_returned" THEN market_schedules[market_id]
    ELSE markets[market_id]

\* The call of the state is one the claim C23 speaks of.
StatusAsked ==
    \/ /\ pc = "status_now_returned"
       /\ market_id \in DOMAIN market_schedules
       /\ market_schedules[market_id].active
    \/ pc = "status_returned" /\ market_id \in DOMAIN markets

\* Seconds of the day of a clock string given as hour and minute.
SecondsAt(hour, minute) == hour * 3600 + minute * 60

\* C23: for every active configured market, and for the markets robusta
\* and arabica of the scraper, the status function returns one of open,
\* closed, pre_market, after_hours, closed_weekend: closed_weekend on
\* Saturday and Sunday, else open when open_time <= local time <=
\* close_time, pre_market before open_time and after_hours after close_time.
C23_MarketStatus ==
    StatusAsked =>
        LET instant == local_now[1]
            t == current_time_of(instant)
            open == SecondsAt(FieldOf(SubSeq(HoursAsked.open_time, 1, 2)),
                              FieldOf(SubSeq(HoursAsked.open_time, 4, 5)))
            close == SecondsAt(FieldOf(SubSeq(HoursAsked.close_time, 1, 2)),
                               FieldOf(SubSeq(HoursAsked.close_time, 4, 5)))
        IN  /\ status \in {"open", "closed", "pre_market", "after_hours",
                           "closed_weekend"}
            /\ status = "closed_weekend" <=> instant.weekday \in {5, 6}
            /\ instant.weekday \notin {5, 6} =>
                   /\ status = "open" <=> (open <= t /\ t <= close)
                   /\ status = "pre_market" <=> t < open
                   /\ status = "after_hours" <=> t > close

\* C23 witness: on a Wednesday at 14:30:00 New York time, the last instant
\* of trading, the configured arabica market is open.
C23_Witness ==
    /\ pc = "status_now_returned"
    /\ market_id = "ice_us_arabica"
    /\ local_now = <<[weekday |-> 2, hour |-> 14, minute |-> 30, second |-> 0]>>
    /\ status = "open"


\* The minute of the day a clock string "HH:MM" names.
MinuteOfDay(s) == 60 * FieldOf(SubSeq(s, 1, 2)) + FieldOf(SubSeq(s, 4, 5))

\* s is the clock string "HH:MM" of minute n of the day.
IsClockOf(s, n) ==
    /\ Len(s) = 5
    /\ s[3] = ":"
    /\ MinuteOfDay(s) = n

\* The minute of the day that lies minutes before the open time, wrapping
\* across midnight.
WrappedBefore(open, minutes) ==
    (MinuteOfDay(open) + MinutesPerDay - (minutes % MinutesPerDay)) % MinutesPerDay

\* The calculation stays within the dates a datetime can hold.
Representable(open, minutes) ==
    minutes <= strptime_day * MinutesPerDay + MinuteOfDay(open)

\* C24 as stated: for every valid open time and every non-negative number
\* of minutes, calculate_pre_market_time returns the clock time that lies
\* that many minutes before the open time, wrapping across midnight, and
\* the scheduler and the configuration manager return the same value.
C24_MinutesBefore ==
    /\ \A who \in DOMAIN pre_market_times :
           IsClockOf(pre_market_times[who],
                     WrappedBefore(market_open, minutes_before))
    /\ (DOMAIN pre_market_times = {"scheduler", "config"} =>
            pre_market_times["scheduler"] = pre_market_times["config"])

\* C24 amended: the same, for the numbers of minutes that do not lead
\* before the first date a datetime can hold; for the larger ones the open
\* time itself is returned.
C24_MinutesBeforeRepresentable ==
    /\ \A who \in DOMAIN pre_market_times :
           IF Representable(market_open, minutes_before)
           THEN IsClockOf(pre_market_times[who],
                          WrappedBefore(market_open, minutes_before))
           ELSE pre_market_times[who] = market_open
    /\ (DOMAIN pre_market_times = {"scheduler", "config"} =>
            pre_market_times["scheduler"] = pre_market_times["config"])

\* C24 witness: 30 minutes before 00:10 is 23:40 of the day before, for the
\* scheduler and for the configuration manager.
C24_Witness ==
    /\ market_open = <<"0", "0", ":", "1", "0">>
    /\ minutes_before = 30
    /\ DOMAIN pre_market_times = {"scheduler", "config"}
    /\ pre_market_times["scheduler"] = <<"2", "3", ":", "4", "0">>
    /\ pre_market_times["config"] = <<"2", "3", ":", "4", "0">>


\* The points are the two market estimates: robusta_london and
\* arabica_newyork, each with confidence 0.4.
AreMarketEstimates(points) ==
    /\ Len(points) = 2
    /\ {points[k].market_type : k \in DOMAIN points}
           = {"robusta_london", "arabica_newyork"}
    /\ \A k \in DOMAIN points :
           /\ points[k].confidence = R(4, 10)
           /\ points[k].source = "market_estimate"

\* C27: for every combination of per-source outcomes the list handed to
\* compare_prices is non-empty: when no source yields a point the market
\* estimates for robusta_london and arabica_newyork (confidence 0.4) take
\* its place and sources_used becomes ['market_estimates']; the result has
\* at least one market, success_count >= 1 and status 'Active', never
\* 'Failed - no sources available'.
C27_NeverWithoutData ==
    /\ [](pc \in {"collect", "compared", "returned"} => all_price_points # <<>>)
    /\ [][(pc = "scrape" /\ pc' = "collect" /\ all_price_points = <<>>) =>
              /\ AreMarketEstimates(all_price_points')
              /\ sources_used' = <<"market_estimates">>]_vars
    /\ [][(pc = "scrape" /\ pc' = "collect" /\ all_price_points # <<>>) =>
              /\ all_price_points' = all_price_points
              /\ sources_used' = sources_used
              /\ sources_used # <<>>]_vars
    /\ [](pc = "returned" =>
              /\ report[1].total_markets >= 1
              /\ report[1].success_count >= 1
              /\ report[1].status = "Active"
              /\ report[1].status # "Failed - no sources available")

\* C27 witness: webgia and giacaphe could not be fetched and the three
\* other sources gave no point; the result counts the market estimates as
\* one source and two markets and is Active.
C27_Witness ==
    /\ pc = "returned"
    /\ failed_sources = <<"webgia_international", "giacaphe_vietnam">>
    /\ sources_used = <<"market_estimates">>
    /\ AreMarketEstimates(all_price_points)
    /\ report[1].success_count = 1
    /\ report[1].total_markets = 2
    /\ report[1].status = "Active"


\* The threads that are inside schedule.run_pending().
RunningPending == {t \in DOMAIN threads : threads[t] = "run_pending"}

\* C28: across any interleaving of start_scheduler and stop_scheduler at
\* most one loop thread is running pending jobs at any time, and once
\* stop_scheduler has returned no thread started before it runs pending
\* jobs again, also when start_scheduler is called again before the old
\* thread has finished its sleep.
C28_OneLoopThread ==
    /\ [](Cardinality(RunningPending) <= 1)
    /\ [][\A t \in stopped :
              threads'[t] = "run_pending" => threads[t] = "run_pending"]_vars


\* The number of the last run that returned True, 0 when there is none.
LastSuccess ==
    LET successes == {k \in DOMAIN runs : runs[k]}
    IN  IF successes = {} THEN 0
        ELSE CHOOSE k \in successes : \A j \in successes : j <= k

\* C29: after any sequence of run_daily_report calls consecutive_failures
\* is the number of failed runs since the last successful run, or since
\* construction: a successful run resets it to 0 and sets
\* last_successful_run, a failed run adds one and returns False; an error
\* notification is sent on a failed run exactly when the incremented count
\* is at least 2, never on the first failure after a success.
C29_ConsecutiveFailures ==
    /\ [](consecutive_failures = Len(runs) - LastSuccess)
    /\ [](last_successful_run = IF LastSuccess = 0 THEN <<>> ELSE <<LastSuccess>>)
    /\ [][Len(runs') = Len(runs) + 1]_vars
    /\ [][runs'[Len(runs')] =>
              /\ consecutive_failures' = 0
              /\ last_successful_run' = <<Len(runs')>>
              /\ error_notifications' = error_notifications]_vars
    /\ [][~runs'[Len(runs')] =>
              /\ consecutive_failures' = consecutive_failures + 1
              /\ last_successful_run' = last_successful_run
              /\ IF consecutive_failures' >= 2
                 THEN /\ Len(error_notifications') = Len(error_notifications) + 1
                      /\ error_notifications'[Len(error_notifications')].failures
                             = consecutive_failures'
                 ELSE error_notifications' = error_notifications]_vars
    /\ [][(consecutive_failures = 0 /\ ~runs'[Len(runs')]) =>
              error_notifications' = error_notifications]_vars

\* C29 witness: two failures, a success, one failure: the count is 1 again,
\* and the only error notification is that of the second failure.
C29_Witness ==
    /\ runs = <<FALSE, FALSE, TRUE, FALSE>>
    /\ consecutive_failures = 1
    /\ last_successful_run = <<3>>
    /\ Len(error_notifications) = 1
    /\ error_notifications[1].failures = 2


\* The last n entries of a list, all of them when it has fewer.
LastEntries(list, n) ==
    IF Len(list) <= n THEN list ELSE SubSeq(list, Len(list) - n + 1, Len(list))

\* C30: after any number of scrape_coffee_prices calls each price_history
\* list holds at most 100 entries, these are the most recent successfully
\* parsed observations of that coffee type in the order they were scraped,
\* and a failed fetch or parse of a coffee type adds no entry to its
\* history.
C30_BoundedHistory ==
    /\ [](\A c \in DOMAIN price_history :
              /\ Len(price_history[c]) <= 100
              /\ price_history[c] = LastEntries(scraped[c], 100)
              /\ \A j, k \in DOMAIN price_history[c] :
                     j < k => price_history[c][j].timestamp
                                  < price_history[c][k].timestamp)
    /\ [][\A c \in DOMAIN price_history :
              scraped'[c] = scraped[c] => price_history'[c] = price_history[c]]_vars

\* C30 witness: robusta was parsed in each of 102 calls and its history
\* holds the observations of the calls 3 to 102; arabica was parsed in the
\* first 99 calls, then not, then in call 101 and not in call 102.
C30_Witness ==
    /\ scrapes = 102
    /\ Len(scraped["robusta"]) = 102
    /\ Len(price_history["robusta"]) = 100
    /\ price_history["robusta"][1].timestamp = 3
    /\ price_history["robusta"][100].timestamp = 102
    /\ Len(price_history["arabica"]) = 100
    /\ price_history["arabica"][99].timestamp = 99
    /\ price_history["arabica"][100].timestamp = 101

====
